---- MODULE Spec2Model ----
(***************************************************************************)
(* A model of src/nslslSearch.js: the jQuery handlers of the NSLSL search  *)
(* page.  The page is single threaded: every handler and every ajax        *)
(* callback runs to completion, so each one is one action.  jQuery calls   *)
(* beforeSend inside $.ajax, and calls success (or error) and then         *)
(* complete in one task when the response arrives.                         *)
(*                                                                         *)
(* Text is modelled by TLA+ strings: \o is the + of JavaScript, and        *)
(* SubSeq(s, i, i) is the i-th character.                                  *)
(***************************************************************************)
EXTENDS Integers, Sequences, FiniteSets, Bags, TLC

(***************************************************************************)
(* Bounds of the model.                                                    *)
(***************************************************************************)
\* the user appends at most this many clauses between two empty query boxes
MaxAppends == 3
\* the publications of the result set are 1..MaxPub
MaxPub == 2
\* at most this many ajax requests are in flight at a time
MaxInFlight == 2

VARIABLES
    \* ---- the advanced query builder (DOM state) ----
    queryBox,           \* $("#queryBox").val()
    searchCriteria,     \* $("#searchCriteria").val()
    searchValue,        \* $("#searchValue").val()
    searchFromValue,    \* $("#searchFromValue").val()
    searchToValue,      \* $("#searchToValue").val()
    searchOptions,      \* index of the :selected option of #searchOptions
    fromToHidden,       \* #fromToValues has class d-none
    searchValueHidden,  \* #searchValue has class d-none
    btnAddText,         \* $("#btnAdd").text()
    btnNotHidden,       \* #btnNot has class d-none
    btnOrHidden,        \* #btnOr has class d-none
    emptySearchTerm,    \* [html |-> text of #emptySearchTerm, hidden |-> d-none]
    btnSearchDisabled,  \* .btnSearch has class disabled
    advancedLoaded,     \* .advancedSearchContainer (and #queryBox) exists
    advancedVisible,    \* $("#advancedSearchDisplay").is(':visible')
    errorMessages,      \* #errorMessages is shown with its message
    \* ---- the selection and the result list ----
    heap,               \* the arrays of the script: array id -> contents
    selectedPubIds,     \* the global selectedPubIds: the id of an array
    selectedLabel,      \* N of the option text "Selected Results (N)"
    searchResults,      \* #searchResults: [CurrentPage, pubSelected], where
                        \* pubSelected maps the pubid of each .pubSelected
                        \* checkbox to its checked property
    selectAll,          \* $("#selectAll").prop('checked')
    selectAllLabel,     \* $("#selectAllLabel").text()
    requests,           \* the ajax requests in flight: a bag of Request
    loadingMessage,     \* #loadingMessage is shown
    searchSpinner,      \* .search-spinner shown and .searchicon hidden
    resetIconHidden,    \* .reset-icon has class d-none
    location,           \* "Index", "Details", or "Left" once window.location
                        \* was assigned
    \* ---- the export dialogs ----
    emailModal,         \* #emailModal: [shown, emailTo, Selection, toError,
                        \* selectError, maxMsg, icon]
    saveModal,          \* #saveModal: [shown, Selection, selectError,
                        \* maxMsg, icon]
    searchResultCount,  \* $("#searchResultCount").val()
    \* ---- the default filters ----
    defaultFilter,      \* the checked property of each .defaultFilter
                        \* checkbox, in document order
    fromPubYear,        \* $("#fromPubYear").val()
    toPubYear,          \* $("#toPubYear").val()
    customRange,        \* $("#customRange").is(':checked')
    DefaultFilterCriteria, \* $("#DefaultFilterCriteria").val()
    toastrError,        \* the message of toastr.error, "" when none is shown
    \* ---- history of the requests (not program state) ----
    answered,           \* the request whose callbacks have just run, and
                        \* how it ended: [handler, status]; NoRequest after
                        \* any other handler
    \* ---- history of the query builder (not program state) ----
    clauses             \* the clauses appended since the box was last
                        \* empty, each [operator, term]; the term "?"
                        \* marks a box whose text was typed

qryVars == << queryBox, searchCriteria, searchValue, searchFromValue,
              searchToValue, searchOptions, fromToHidden, searchValueHidden,
              btnAddText, btnNotHidden, btnOrHidden, emptySearchTerm,
              btnSearchDisabled, advancedLoaded, advancedVisible,
              errorMessages, clauses >>

selVars == << heap, selectedPubIds, selectedLabel, searchResults, selectAll,
              selectAllLabel, requests, loadingMessage, searchSpinner,
              resetIconHidden, location, answered >>

expVars == << emailModal, saveModal, searchResultCount >>

fltVars == << defaultFilter, fromPubYear, toPubYear, customRange,
             DefaultFilterCriteria, toastrError >>

vars == << qryVars, selVars, expVars, fltVars >>

(***************************************************************************)
(* The page as the server renders it.                                      *)
(***************************************************************************)
\* the options of the #searchOptions select: text and data-columntype
FieldOptions ==
    << [text |-> "fieldA", columntype |-> "string"],
       [text |-> "year",   columntype |-> "int"] >>

\* the buttons that run addToQueryBox (selector '.btnAdd, #btnAdd')
AddButtons == {"btnAdd", "btnOr", "btnNot"}

\* btnClicked.data("operator")
DataOperator(btn) ==
    CASE btn = "btnAdd" -> "AND"
      [] btn = "btnOr"  -> "OR"
      [] btn = "btnNot" -> "AND NOT"

\* what the user types into #searchValue, #searchFromValue, #searchToValue
TypedValues == {"", "x", "("}
TypedYears  == {"", "1990"}

(***************************************************************************)
(* addToQueryBox, lines 790-843.                                           *)
(***************************************************************************)
\* the guard left out: every click appends
NothingEnteredNeverHolds(value, from, to) == FALSE

\* line 792: nothing was entered
NothingEntered(value, from, to) == value = "" /\ from = "" /\ to = ""

\* the lower default of the default filters, 1001, taken for a missing from
NewSearchTermFrom1001(fieldType, field, value, from, to) ==
    IF fieldType = "string"
    THEN value \o "[" \o field \o "]"
    ELSE (IF from = "" THEN "1001" ELSE from) \o ":"
         \o (IF to = "" THEN "3000" ELSE to) \o "[" \o field \o "]"

\* lines 815-827: the text of the new clause
NewSearchTerm(fieldType, field, value, from, to) ==
    IF fieldType = "string"
    THEN value \o "[" \o field \o "]"
    ELSE (IF from = "" THEN "0" ELSE from) \o ":"
         \o (IF to = "" THEN "3000" ELSE to) \o "[" \o field \o "]"

\* the operator of the ADD button whatever button was used
NewQueryBoxAlwaysAnd(current, operator, newSearchTerm) ==
    IF current = ""
    THEN newSearchTerm
    ELSE "(" \o current \o ") AND (" \o newSearchTerm \o ")"

\* the test for an empty query box left out
NewQueryBoxAlwaysWraps(current, operator, newSearchTerm) ==
    "(" \o current \o ") " \o operator \o " (" \o newSearchTerm \o ")"

\* the content already there not enclosed in parentheses
NewQueryBoxFlat(current, operator, newSearchTerm) ==
    IF current = ""
    THEN newSearchTerm
    ELSE current \o " " \o operator \o " (" \o newSearchTerm \o ")"

\* lines 830-835: the new content of the query box
NewQueryBox(current, operator, newSearchTerm) ==
    IF current = ""
    THEN newSearchTerm
    ELSE "(" \o current \o ") " \o operator \o " (" \o newSearchTerm \o ")"

\* the :selected option of #searchOptions
SelectedOption == FieldOptions[searchOptions]

\* the clause addToQueryBox would build from the inputs as they stand
CurrentTerm ==
    NewSearchTerm(SelectedOption.columntype, SelectedOption.text,
                  searchValue, searchFromValue, searchToValue)

\* the whole function, for the button btnClicked
addToQueryBox(btnClicked) ==
    /\ IF NothingEntered(searchValue, searchFromValue, searchToValue)
       THEN /\ emptySearchTerm' =
                   [html |-> "Please enter a value before adding to query.",
                    hidden |-> FALSE]
            /\ UNCHANGED << queryBox, searchCriteria, searchValue,
                            btnAddText, btnNotHidden, btnOrHidden,
                            btnSearchDisabled, clauses >>
       ELSE LET operator == DataOperator(btnClicked)
                text     == IF btnClicked = "btnAdd" THEN btnAddText
                            ELSE operator
                first    == text # "AND" /\ operator = "AND"
                newBox   == NewQueryBox(queryBox, operator, CurrentTerm)
            IN  /\ emptySearchTerm' =
                       [emptySearchTerm EXCEPT !.hidden = TRUE]
                /\ btnAddText' = IF first THEN "AND" ELSE btnAddText
                /\ btnNotHidden' = IF first THEN FALSE ELSE btnNotHidden
                /\ btnOrHidden' = IF first THEN FALSE ELSE btnOrHidden
                /\ queryBox' = newBox
                /\ searchCriteria' = newBox
                /\ searchValue' = ""
                /\ btnSearchDisabled' = FALSE
                /\ clauses' =
                       LET clause == [operator |-> operator,
                                      term |-> CurrentTerm]
                       IN  IF queryBox = "" THEN << clause >>
                           ELSE Append(clauses, clause)
    /\ UNCHANGED << searchFromValue, searchToValue, searchOptions,
                    fromToHidden, searchValueHidden, advancedLoaded,
                    advancedVisible, errorMessages >>
    /\ UNCHANGED selVars
    /\ UNCHANGED expVars
    /\ UNCHANGED fltVars

\* a button is clickable when it is shown
ButtonShown(btn) ==
    CASE btn = "btnAdd" -> TRUE
      [] btn = "btnOr"  -> ~btnOrHidden
      [] btn = "btnNot" -> ~btnNotHidden

\* the bound on the length of the query: appends since the box was empty
MayAppend == queryBox = "" \/ Len(clauses) < MaxAppends

\* lines 213-215: click on one of the three advanced search buttons
BtnAddClick(btn) ==
    /\ ButtonShown(btn)
    /\ MayAppend
    /\ addToQueryBox(btn)

\* lines 12-15: Enter released in #searchValue
SearchValueEnter ==
    /\ ~searchValueHidden
    /\ MayAppend
    /\ addToQueryBox("btnAdd")

\* the user types into the value input that is shown
TypeSearchValue(v) ==
    /\ ~searchValueHidden
    /\ searchValue # v
    /\ searchValue' = v
    /\ UNCHANGED << queryBox, searchCriteria, searchFromValue, searchToValue,
                    searchOptions, fromToHidden, searchValueHidden,
                    btnAddText, btnNotHidden, btnOrHidden, emptySearchTerm,
                    btnSearchDisabled, advancedLoaded, advancedVisible,
                    errorMessages, clauses >>
    /\ UNCHANGED selVars
    /\ UNCHANGED expVars
    /\ UNCHANGED fltVars

\* the user types into the from / to inputs, when they are shown
TypeFromTo(from, to) ==
    /\ ~fromToHidden
    /\ << from, to >> # << searchFromValue, searchToValue >>
    /\ searchFromValue' = from
    /\ searchToValue' = to
    /\ UNCHANGED << queryBox, searchCriteria, searchValue, searchOptions,
                    fromToHidden, searchValueHidden, btnAddText,
                    btnNotHidden, btnOrHidden, emptySearchTerm,
                    btnSearchDisabled, advancedLoaded, advancedVisible,
                    errorMessages, clauses >>
    /\ UNCHANGED selVars
    /\ UNCHANGED expVars
    /\ UNCHANGED fltVars

\* lines 199-208: another field is chosen in #searchOptions
SearchOptionsChange(i) ==
    /\ i # searchOptions
    /\ searchOptions' = i
    /\ LET fieldType == FieldOptions[i].columntype
       IN  IF fieldType = "int" /\ fromToHidden
           THEN fromToHidden' = FALSE /\ searchValueHidden' = TRUE
           ELSE IF fieldType = "string" /\ searchValueHidden
           THEN fromToHidden' = TRUE /\ searchValueHidden' = FALSE
           ELSE UNCHANGED << fromToHidden, searchValueHidden >>
    /\ UNCHANGED << queryBox, searchCriteria, searchValue, searchFromValue,
                    searchToValue, btnAddText, btnNotHidden, btnOrHidden,
                    emptySearchTerm, btnSearchDisabled, advancedLoaded,
                    advancedVisible, errorMessages, clauses >>
    /\ UNCHANGED selVars
    /\ UNCHANGED expVars
    /\ UNCHANGED fltVars

\* a Clear that leaves the OR and AND NOT buttons shown
BtnClearClickKeepsButtons ==
    /\ searchCriteria' = ""
    /\ queryBox' = ""
    /\ searchValue' = ""
    /\ btnAddText' = "ADD"
    /\ btnSearchDisabled' = TRUE
    /\ emptySearchTerm' = [emptySearchTerm EXCEPT !.html = ""]
    /\ clauses' = << >>
    /\ UNCHANGED << btnNotHidden, btnOrHidden, searchFromValue,
                    searchToValue, searchOptions, fromToHidden,
                    searchValueHidden, advancedLoaded, advancedVisible,
                    errorMessages >>
    /\ UNCHANGED selVars
    /\ UNCHANGED expVars
    /\ UNCHANGED fltVars

\* lines 217-228: the Clear button
BtnClearClick ==
    /\ searchCriteria' = ""
    /\ queryBox' = ""
    /\ searchValue' = ""
    /\ btnAddText' = "ADD"
    /\ btnNotHidden' = TRUE
    /\ btnOrHidden' = TRUE
    /\ btnSearchDisabled' = TRUE
    /\ emptySearchTerm' = [emptySearchTerm EXCEPT !.html = ""]
    /\ clauses' = << >>
    /\ UNCHANGED << searchFromValue, searchToValue, searchOptions,
                    fromToHidden, searchValueHidden, advancedLoaded,
                    advancedVisible, errorMessages >>
    /\ UNCHANGED selVars
    /\ UNCHANGED expVars
    /\ UNCHANGED fltVars

\* lines 29-43: the user edits the text of the query box by hand (a key
\* other than Enter is released in #queryBox)
QueryBoxKeyup(text) ==
    /\ text # queryBox
    /\ queryBox' = text
    /\ btnSearchDisabled' = (text = "")
    /\ clauses' = IF text = "" THEN << >>
                   ELSE << [operator |-> "", term |-> "?"] >>
    /\ UNCHANGED << searchCriteria, searchValue, searchFromValue,
                    searchToValue, searchOptions, fromToHidden,
                    searchValueHidden, btnAddText, btnNotHidden, btnOrHidden,
                    emptySearchTerm, advancedLoaded, advancedVisible,
                    errorMessages >>
    /\ UNCHANGED selVars
    /\ UNCHANGED expVars
    /\ UNCHANGED fltVars

(***************************************************************************)
(* The result list and the arrays of the script.                           *)
(***************************************************************************)
Pubs == 1..MaxPub

\* the result set is shown one publication to a page
NumPages == MaxPub
PageIds(p) == {p}

\* the texts a user types into .pageNumber; parseInt of PageTexts[i] is
\* i - 1, parseInt of any other text is NaN
PageTexts == << "0", "1", "2", "3", "4", "5", "6" >>
TypedPages == {PageTexts[i] : i \in 1..(NumPages + 2)} \cup {"abc"}
NaN == [nan |-> TRUE, n |-> 0]
Num(n) == [nan |-> FALSE, n |-> n]
parseInt(text) ==
    IF \E i \in 1..Len(PageTexts) : PageTexts[i] = text
    THEN Num((CHOOSE i \in 1..Len(PageTexts) : PageTexts[i] = text) - 1)
    ELSE NaN
\* a > b of JavaScript on numbers: false when either is NaN
Greater(a, b) == ~a.nan /\ ~b.nan /\ a.n > b.n

\* the number a text is converted to when > compares it with a number:
\* 0 for the empty text, the decimal value of a text of digits, else NaN
Digits == << "0", "1", "2", "3", "4", "5", "6", "7", "8", "9" >>
CharsOf(text) == {SubSeq(text, i, i) : i \in 1..Len(text)}
DigitValue(c) == (CHOOSE i \in 1..10 : Digits[i] = c) - 1
RECURSIVE DecimalValue(_, _)
DecimalValue(text, acc) ==
    IF text = "" THEN acc
    ELSE DecimalValue(SubSeq(text, 2, Len(text)),
                      10 * acc + DigitValue(SubSeq(text, 1, 1)))
ToNumber(text) ==
    IF text = "" THEN Num(0)
    ELSE IF CharsOf(text) \subseteq {Digits[i] : i \in 1..10}
    THEN Num(DecimalValue(text, 0))
    ELSE NaN

\* #searchResults before the first search: no result list
NoResults ==
    [CurrentPage |-> 0, pageNumber |-> "", pubSelected |-> << >>,
     hidden |-> {}]

\* the fragment the server renders for page p: the page number field shows
\* p, every .pubSelected checkbox is unchecked, and no pager link and no
\* page number field is hidden (hidden: the data-val of the .fetchpage
\* links, and PageNumberField for .pageNumber, that have class d-none
\* while the spinner next to them is shown)
PageNumberField == 0
Fragment(p) ==
    [CurrentPage |-> p, pageNumber |-> PageTexts[p + 1],
     pubSelected |-> [id \in PageIds(p) |-> FALSE],
     hidden |-> {}]

\* the lists SelectAllCheckedAjax may answer: ids in ascending order,
\* no id twice
RECURSIVE Ascending(_)
Ascending(S) ==
    IF S = {} THEN << >>
    ELSE LET m == CHOOSE x \in S : \A y \in S : x <= y
         IN  << m >> \o Ascending(S \ {m})
ServerLists == {Ascending(S) : S \in SUBSET Pubs}

\* the ids of the arrays: selectedPubIds and the tmpSelectedPubCheckboxes of
\* each search in flight refer to an array, and two references to one
\* array see each other's push and splice
ArrIds == 1..(MaxInFlight + 2)

\* the requests in flight that the handler sent
Sent(reqs, handler) == {r \in BagToSet(reqs) : r.handler = handler}
\* the arrays a closure of a request in flight still refers to
HeldArrs(reqs) == {r.tmpSelectedPubCheckboxes : r \in Sent(reqs, "btnSearch")}
\* "[]": an array no one refers to
NewArray(reqs) ==
    CHOOSE a \in ArrIds \ HeldArrs(reqs) :
        \A b \in ArrIds \ HeldArrs(reqs) : a <= b
\* arrays no reference reaches are dropped
Collect(h, sel, reqs) ==
    [a \in ArrIds |-> IF a \in HeldArrs(reqs) \cup {sel} THEN h[a] ELSE << >>]

Remove(seq, i) == SubSeq(seq, 1, i - 1) \o SubSeq(seq, i + 1, Len(seq))

\* the requests in flight once r was sent, once r was answered
Send(reqs, r) == reqs (+) SetToBag({r})
Answered(reqs, r) == reqs (-) SetToBag({r})

\* Array.prototype.indexOf: the first index, from 0, or -1
indexOf(arr, x) ==
    IF \E i \in 1..Len(arr) : arr[i] = x
    THEN (CHOOSE i \in 1..Len(arr) :
              arr[i] = x /\ \A j \in 1..(i - 1) : arr[j] # x) - 1
    ELSE -1
\* arr.splice(index, 1)
splice1(arr, index) == Remove(arr, index + 1)

\* no callback has just run
NoRequest == [handler |-> "", status |-> ""]

\* the contents of the global array
Selection == heap[selectedPubIds]

(***************************************************************************)
(* setSelectedPubCheckboxes, lines 643-650: over the checkboxes boxes,     *)
(* with the array sel.                                                     *)
(***************************************************************************)
\* the test written as indexOf(pubid) > 0: the first element is missed
setSelectedPubCheckboxesFromSecond(boxes, sel) ==
    [pubid \in DOMAIN boxes |->
        IF indexOf(sel, pubid) > 0 THEN TRUE ELSE boxes[pubid]]

\* no checkbox is checked again
setSelectedPubCheckboxesNone(boxes, sel) ==
    [pubid \in DOMAIN boxes |-> boxes[pubid]]

setSelectedPubCheckboxes(boxes, sel) ==
    [pubid \in DOMAIN boxes |->
        IF indexOf(sel, pubid) # -1 THEN TRUE ELSE boxes[pubid]]

(***************************************************************************)
(* .pubSelected change, lines 582-595: the array after the checkbox of     *)
(* pubid changed to checked.                                               *)
(***************************************************************************)
pubSelectedChange(arr, pubid, checked) ==
    IF checked
    THEN Append(arr, pubid)
    ELSE LET index == indexOf(arr, pubid)
         IN  IF index # -1 THEN splice1(arr, index) ELSE arr

\* the user clicks the checkbox of pubid
PubSelectedChange(pubid) ==
    /\ location = "Index"
    /\ pubid \in DOMAIN searchResults.pubSelected
    /\ LET checked == ~searchResults.pubSelected[pubid]
           arr     == pubSelectedChange(Selection, pubid, checked)
       IN  /\ searchResults' =
                  [searchResults EXCEPT !.pubSelected[pubid] = checked]
           /\ heap' = [heap EXCEPT ![selectedPubIds] = arr]
           /\ selectedLabel' = Len(arr)
    /\ UNCHANGED << selectedPubIds, selectAll, selectAllLabel, requests,
                    loadingMessage, searchSpinner, resetIconHidden,
                    location >>
    /\ answered' = NoRequest
    /\ UNCHANGED qryVars
    /\ UNCHANGED expVars
    /\ UNCHANGED fltVars

(***************************************************************************)
(* createModel, lines 708-730: the fields of the model the claims read.    *)
(***************************************************************************)
createModel(fetchPageNumber) ==
    [CurrentPage |-> fetchPageNumber,
     SearchCriteria |-> IF advancedVisible THEN queryBox ELSE searchCriteria,
     DefaultFilterCriteria |-> DefaultFilterCriteria]

\* a request in flight: the handler that sent it, its model, and what the
\* closures of its callbacks hold
Request(handler, model, tmp, all) ==
    [handler |-> handler, model |-> model,
     tmpSelectedPubCheckboxes |-> tmp, selectAll |-> all]

\* the pages the server may render for a model: the page asked for, or any
\* page when the number asked for is none of them
ServedPages(model) ==
    IF ~model.CurrentPage.nan /\ model.CurrentPage.n \in 1..NumPages
    THEN {model.CurrentPage.n}
    ELSE 1..NumPages

MaySend == BagCardinality(requests) < MaxInFlight

(***************************************************************************)
(* .btnSearch click, lines 49-123.                                         *)
(***************************************************************************)
\* $("#queryBox").val() === '' : false when #queryBox does not exist
QueryBoxIsEmpty == advancedLoaded /\ queryBox = ""

\* the handler; hideReset: the reset filters button hid .reset-icon first
btnSearchClick(hideReset) ==
    IF searchCriteria = "" /\ QueryBoxIsEmpty
    THEN /\ errorMessages' = TRUE
         /\ resetIconHidden' = (resetIconHidden \/ hideReset)
         /\ UNCHANGED << heap, selectedPubIds, selectedLabel, searchResults,
                         selectAll, selectAllLabel, requests, loadingMessage,
                         searchSpinner, location >>
    ELSE IF location = "Details"
    THEN /\ location' = "Left"
         /\ resetIconHidden' = (resetIconHidden \/ hideReset)
         /\ UNCHANGED << errorMessages, heap, selectedPubIds, selectedLabel,
                         searchResults, selectAll, selectAllLabel, requests,
                         loadingMessage, searchSpinner >>
    ELSE /\ MaySend
         /\ searchSpinner' = TRUE
         /\ requests' = Send(requests,
                Request("btnSearch", createModel(Num(1)), selectedPubIds,
                        FALSE))
         /\ loadingMessage' = TRUE
         /\ resetIconHidden' = (resetIconHidden \/ hideReset)
         /\ UNCHANGED << errorMessages, heap, selectedPubIds, selectedLabel,
                         searchResults, selectAll, selectAllLabel, location >>

BtnSearchClick ==
    /\ location # "Left"
    /\ btnSearchClick(FALSE)
    /\ UNCHANGED << queryBox, searchCriteria, searchValue, searchFromValue,
                    searchToValue, searchOptions, fromToHidden,
                    searchValueHidden, btnAddText, btnNotHidden, btnOrHidden,
                    emptySearchTerm, btnSearchDisabled, advancedLoaded,
                    advancedVisible, clauses >>
    /\ answered' = NoRequest
    /\ UNCHANGED expVars
    /\ UNCHANGED fltVars

\* the reset filters button (lines 88-90, 119-120: it hides .reset-icon and
\* has the .btnSearch handler run)
ResetFiltersClick ==
    /\ location = "Index"
    /\ searchResults # NoResults
    /\ btnSearchClick(TRUE)
    /\ UNCHANGED << queryBox, searchCriteria, searchValue, searchFromValue,
                    searchToValue, searchOptions, fromToHidden,
                    searchValueHidden, btnAddText, btnNotHidden, btnOrHidden,
                    emptySearchTerm, btnSearchDisabled, advancedLoaded,
                    advancedVisible, clauses >>
    /\ answered' = NoRequest
    /\ UNCHANGED expVars
    /\ UNCHANGED fltVars

\* a reset filters search that still restores after the icon is shown again
restorePathAlways == TRUE

\* line 88: $(".reset-icon").hasClass('d-none')
restorePath == resetIconHidden

\* lines 81-97 and 105-121: success with a result fragment, then complete
BtnSearchSuccess(r, p) ==
    /\ location = "Index"
    /\ r \in Sent(requests, "btnSearch")
    /\ p \in ServedPages(r.model)
    /\ requests' = Answered(requests, r)
    /\ IF restorePath
       THEN /\ selectedPubIds' = r.tmpSelectedPubCheckboxes
            /\ heap' = Collect(heap, selectedPubIds', requests')
            /\ searchResults' =
                   [Fragment(p) EXCEPT !.pubSelected =
                       setSelectedPubCheckboxes(@, heap[selectedPubIds'])]
            /\ UNCHANGED selectedLabel
       ELSE /\ searchResults' = Fragment(p)
            /\ selectedLabel' = 0
            /\ selectedPubIds' = NewArray(requests')
            /\ heap' = Collect([heap EXCEPT ![selectedPubIds'] = << >>],
                               selectedPubIds', requests')
    /\ loadingMessage' = FALSE
    /\ searchSpinner' = FALSE
    /\ resetIconHidden' = FALSE
    /\ UNCHANGED << selectAll, selectAllLabel, location >>
    /\ answered' = [handler |-> r.handler, status |-> "success"]
    /\ UNCHANGED qryVars
    /\ UNCHANGED expVars
    /\ UNCHANGED fltVars

\* lines 82-83: success with {result: "Redirect", url}: window.location is
\* assigned, the page is unloaded and what its script held is gone
BtnSearchRedirect(r) ==
    /\ location = "Index"
    /\ r \in Sent(requests, "btnSearch")
    /\ location' = "Left"
    /\ requests' = EmptyBag
    /\ selectedPubIds' = NewArray(EmptyBag)
    /\ heap' = [a \in ArrIds |-> << >>]
    /\ selectedLabel' = 0
    /\ searchResults' = NoResults
    /\ selectAll' = FALSE
    /\ selectAllLabel' = "Select all Results"
    /\ loadingMessage' = FALSE
    /\ searchSpinner' = FALSE
    /\ resetIconHidden' = FALSE
    /\ answered' = [handler |-> r.handler, status |-> "redirect"]
    /\ UNCHANGED qryVars
    /\ UNCHANGED expVars
    /\ UNCHANGED fltVars

\* lines 98-101 and 105-121: error, then complete
BtnSearchError(r) ==
    /\ location = "Index"
    /\ r \in Sent(requests, "btnSearch")
    /\ requests' = Answered(requests, r)
    /\ heap' = Collect(heap, selectedPubIds, requests')
    /\ loadingMessage' = FALSE
    /\ searchSpinner' = FALSE
    /\ resetIconHidden' = FALSE
    /\ UNCHANGED << selectedPubIds, selectedLabel, searchResults, selectAll,
                    selectAllLabel, location >>
    /\ answered' = [handler |-> r.handler, status |-> "error"]
    /\ UNCHANGED qryVars
    /\ UNCHANGED expVars
    /\ UNCHANGED fltVars

\* lines 29-43: the user edits the simple search box (a key other than
\* Enter is released in #searchCriteria)
SearchCriteriaKeyup(text) ==
    /\ location # "Left"
    /\ ~advancedVisible
    /\ text # searchCriteria
    /\ searchCriteria' = text
    /\ btnSearchDisabled' = (text = "")
    /\ UNCHANGED << queryBox, searchValue, searchFromValue, searchToValue,
                    searchOptions, fromToHidden, searchValueHidden,
                    btnAddText, btnNotHidden, btnOrHidden, emptySearchTerm,
                    advancedLoaded, advancedVisible, errorMessages, clauses >>
    /\ answered' = NoRequest
    /\ UNCHANGED << heap, selectedPubIds, selectedLabel, searchResults,
                    selectAll, selectAllLabel, requests, loadingMessage,
                    searchSpinner, resetIconHidden, location >>
    /\ UNCHANGED expVars
    /\ UNCHANGED fltVars

(***************************************************************************)
(* #searchAdvance click, lines 125-194.  The sections of the result list   *)
(* the handler hides (lines 127-133) are not part of the state.            *)
(***************************************************************************)
\* the AdvancedSearchAjax request carries no data
NoModel ==
    [CurrentPage |-> Num(0), SearchCriteria |-> "",
     DefaultFilterCriteria |-> ""]

\* the text a query box given the text of #searchCriteria was built from
ClausesOf(text) ==
    IF text = "" THEN << >> ELSE << [operator |-> "", term |-> "?"] >>

\* line 148: typeof $(".advancedSearchContainer").html() === 'undefined'
advancedMissing == ~advancedLoaded

\* the handler
SearchAdvanceClick ==
    /\ location = "Index"
    /\ IF advancedVisible
       THEN \* lines 135-146: from the advanced to the simple search;
            \* val(undefined) of a missing #queryBox sets the empty text
            /\ searchCriteria' = IF advancedLoaded THEN queryBox ELSE ""
            /\ advancedVisible' = FALSE
            /\ btnSearchDisabled' = (searchCriteria' = "")
            /\ UNCHANGED << queryBox, clauses, requests, loadingMessage >>
       ELSE /\ IF advancedMissing
               THEN \* lines 149-181: the fragment is asked for
                    /\ MaySend
                    /\ requests' = Send(requests,
                           Request("searchAdvance", NoModel, 0, FALSE))
                    /\ loadingMessage' = TRUE
                    /\ UNCHANGED << queryBox, clauses, btnSearchDisabled >>
               ELSE \* lines 183-189
                    /\ queryBox' = searchCriteria
                    /\ clauses' = ClausesOf(searchCriteria)
                    /\ btnSearchDisabled' = (searchCriteria = "")
                    /\ UNCHANGED << requests, loadingMessage >>
            /\ advancedVisible' = TRUE
            /\ UNCHANGED searchCriteria
    /\ UNCHANGED << searchValue, searchFromValue, searchToValue,
                    searchOptions, fromToHidden, searchValueHidden,
                    btnAddText, btnNotHidden, btnOrHidden, emptySearchTerm,
                    advancedLoaded, errorMessages >>
    /\ UNCHANGED << heap, selectedPubIds, selectedLabel, searchResults,
                    selectAll, selectAllLabel, searchSpinner,
                    resetIconHidden, location >>
    /\ answered' = NoRequest
    /\ UNCHANGED expVars
    /\ UNCHANGED fltVars

\* lines 153-156 and 164-180: success puts the fragment, a query builder
\* as the server renders it, into #advancedSearchDisplay; complete copies
\* #searchCriteria into #queryBox (#SearchType is empty on a page that was
\* not reached from the Details page)
SearchAdvanceSuccess(r) ==
    /\ location = "Index"
    /\ r \in Sent(requests, "searchAdvance")
    /\ requests' = Answered(requests, r)
    /\ advancedLoaded' = TRUE
    /\ searchValue' = ""
    /\ searchFromValue' = ""
    /\ searchToValue' = ""
    /\ searchOptions' = 1
    /\ fromToHidden' = TRUE
    /\ searchValueHidden' = FALSE
    /\ btnAddText' = "ADD"
    /\ btnNotHidden' = TRUE
    /\ btnOrHidden' = TRUE
    /\ emptySearchTerm' = [html |-> "", hidden |-> TRUE]
    /\ queryBox' = searchCriteria
    /\ clauses' = ClausesOf(searchCriteria)
    /\ btnSearchDisabled' = (searchCriteria = "")
    /\ loadingMessage' = FALSE
    /\ UNCHANGED << searchCriteria, advancedVisible, errorMessages >>
    /\ UNCHANGED << heap, selectedPubIds, selectedLabel, searchResults,
                    selectAll, selectAllLabel, searchSpinner,
                    resetIconHidden, location >>
    /\ answered' = [handler |-> r.handler, status |-> "success"]
    /\ UNCHANGED expVars
    /\ UNCHANGED fltVars

\* lines 157-160 and 164-180: error, then complete; val() of a missing
\* #queryBox is undefined, which is not ''
SearchAdvanceError(r) ==
    /\ location = "Index"
    /\ r \in Sent(requests, "searchAdvance")
    /\ requests' = Answered(requests, r)
    /\ IF advancedLoaded
       THEN /\ queryBox' = searchCriteria
            /\ clauses' = ClausesOf(searchCriteria)
            /\ btnSearchDisabled' = (searchCriteria = "")
       ELSE /\ btnSearchDisabled' = FALSE
            /\ UNCHANGED << queryBox, clauses >>
    /\ loadingMessage' = FALSE
    /\ UNCHANGED << searchCriteria, searchValue, searchFromValue,
                    searchToValue, searchOptions, fromToHidden,
                    searchValueHidden, btnAddText, btnNotHidden, btnOrHidden,
                    emptySearchTerm, advancedLoaded, advancedVisible,
                    errorMessages >>
    /\ UNCHANGED << heap, selectedPubIds, selectedLabel, searchResults,
                    selectAll, selectAllLabel, searchSpinner,
                    resetIconHidden, location >>
    /\ answered' = [handler |-> r.handler, status |-> "error"]
    /\ UNCHANGED expVars
    /\ UNCHANGED fltVars

(***************************************************************************)
(* .pageNumber keyup / .fetchpage click, lines 231-281.                    *)
(***************************************************************************)
\* lines 246-269: the element this is hidden, the spinner next to it is
\* shown, and the request is sent
FetchPageSend(fetchPageNumber, text, this) ==
    /\ MaySend
    /\ searchResults' = [searchResults EXCEPT !.pageNumber = text,
                                              !.hidden = @ \cup {this}]
    /\ requests' = Send(requests,
           Request("fetchpage", createModel(fetchPageNumber), 0, FALSE))
    /\ loadingMessage' = TRUE

\* click on a pager link: its href and its data-val
FetchPageClick(href, val) ==
    /\ location = "Index"
    /\ searchResults # NoResults
    /\ IF href # "#"
       THEN UNCHANGED << searchResults, requests, loadingMessage >>
       ELSE FetchPageSend(Num(val), PageTexts[val + 1], val)
    /\ UNCHANGED << heap, selectedPubIds, selectedLabel, selectAll,
                    selectAllLabel, searchSpinner, resetIconHidden,
                    location >>
    /\ answered' = NoRequest
    /\ UNCHANGED qryVars
    /\ UNCHANGED expVars
    /\ UNCHANGED fltVars

\* Enter released in .pageNumber, which holds text
PageNumberEnter(text) ==
    /\ location = "Index"
    /\ searchResults # NoResults
    /\ LET fetchPageNumber == parseInt(text)
       IN  IF \/ Greater(fetchPageNumber, Num(NumPages))
              \/ Greater(Num(1), fetchPageNumber)
           THEN /\ searchResults' =
                       [searchResults EXCEPT !.pageNumber =
                           PageTexts[searchResults.CurrentPage + 1]]
                /\ UNCHANGED << requests, loadingMessage >>
           ELSE FetchPageSend(fetchPageNumber, text, PageNumberField)
    /\ UNCHANGED << heap, selectedPubIds, selectedLabel, selectAll,
                    selectAllLabel, searchSpinner, resetIconHidden,
                    location >>
    /\ answered' = NoRequest
    /\ UNCHANGED qryVars
    /\ UNCHANGED expVars
    /\ UNCHANGED fltVars

\* lines 260-262 and 270-276: success, then complete
FetchPageSuccess(r, p) ==
    /\ location = "Index"
    /\ r \in Sent(requests, "fetchpage")
    /\ p \in ServedPages(r.model)
    /\ requests' = Answered(requests, r)
    /\ searchResults' =
           [Fragment(p) EXCEPT !.pubSelected =
               setSelectedPubCheckboxes(@, Selection)]
    /\ UNCHANGED << heap, selectedPubIds, selectedLabel, selectAll,
                    selectAllLabel, loadingMessage, searchSpinner,
                    resetIconHidden, location >>
    /\ answered' = [handler |-> r.handler, status |-> "success"]
    /\ UNCHANGED qryVars
    /\ UNCHANGED expVars
    /\ UNCHANGED fltVars

\* lines 263-266 and 270-276: error, then complete
FetchPageError(r) ==
    /\ location = "Index"
    /\ r \in Sent(requests, "fetchpage")
    /\ requests' = Answered(requests, r)
    /\ loadingMessage' = FALSE
    /\ searchResults' =
           [searchResults EXCEPT !.pubSelected =
               setSelectedPubCheckboxes(@, Selection)]
    /\ UNCHANGED << heap, selectedPubIds, selectedLabel, selectAll,
                    selectAllLabel, searchSpinner, resetIconHidden,
                    location >>
    /\ answered' = [handler |-> r.handler, status |-> "error"]
    /\ UNCHANGED qryVars
    /\ UNCHANGED expVars
    /\ UNCHANGED fltVars

(***************************************************************************)
(* #changeOptions click, lines 284-326.                                    *)
(***************************************************************************)
ChangeOptionsClick ==
    /\ location = "Index"
    /\ searchResults # NoResults
    /\ MaySend
    /\ requests' = Send(requests,
           Request("changeOptions",
                   createModel(parseInt(searchResults.pageNumber)),
                   0, FALSE))
    /\ loadingMessage' = TRUE
    /\ UNCHANGED << heap, selectedPubIds, selectedLabel, searchResults,
                    selectAll, selectAllLabel, searchSpinner,
                    resetIconHidden, location >>
    /\ answered' = NoRequest
    /\ UNCHANGED qryVars
    /\ UNCHANGED expVars
    /\ UNCHANGED fltVars

\* a complete callback that leaves the selection alone
changeOptionsCompleteKeeps(reqs) ==
    /\ requests' = reqs
    /\ UNCHANGED << selectedLabel, selectedPubIds, heap >>

\* lines 319-324: complete
changeOptionsComplete(reqs) ==
    /\ selectedLabel' = 0
    /\ selectedPubIds' = NewArray(reqs)
    /\ heap' = Collect([heap EXCEPT ![selectedPubIds'] = << >>],
                       selectedPubIds', reqs)

\* lines 309-311 and 319-324: success, then complete
ChangeOptionsSuccess(r, p) ==
    /\ location = "Index"
    /\ r \in Sent(requests, "changeOptions")
    /\ p \in ServedPages(r.model)
    /\ requests' = Answered(requests, r)
    /\ searchResults' = Fragment(p)
    /\ changeOptionsComplete(requests')
    /\ UNCHANGED << selectAll, selectAllLabel, loadingMessage, searchSpinner,
                    resetIconHidden, location >>
    /\ answered' = [handler |-> r.handler, status |-> "success"]
    /\ UNCHANGED qryVars
    /\ UNCHANGED expVars
    /\ UNCHANGED fltVars

\* lines 312-315 and 319-324: error, then complete
ChangeOptionsError(r) ==
    /\ location = "Index"
    /\ r \in Sent(requests, "changeOptions")
    /\ requests' = Answered(requests, r)
    /\ loadingMessage' = FALSE
    /\ changeOptionsComplete(requests')
    /\ UNCHANGED << searchResults, selectAll, selectAllLabel, searchSpinner,
                    resetIconHidden, location >>
    /\ answered' = [handler |-> r.handler, status |-> "error"]
    /\ UNCHANGED qryVars
    /\ UNCHANGED expVars
    /\ UNCHANGED fltVars

(***************************************************************************)
(* .defaultFilter click, lines 359-403.                                    *)
(***************************************************************************)
\* the .defaultFilter checkboxes of the page in document order, with their
\* data-filterfield and data-filtervalue
DefaultFilters ==
    << [filterfield |-> "year", filtervalue |-> "5"],
       [filterfield |-> "notempty", filtervalue |-> "Abstract"],
       [filterfield |-> "Author", filtervalue |-> "x"] >>
\* a .defaultFilter that is no checkbox: it has children (line 372) and no
\* checked property (line 670)
FilterButton == 0
FilterElements == (1..Len(DefaultFilters)) \cup {FilterButton}
NoFilterChecked == [i \in 1..Len(DefaultFilters) |-> FALSE]

\* new Date().getFullYear()
CurrentYear == 2026

\* Number.prototype.toString of a natural number
RECURSIVE NumberToString(_)
NumberToString(n) ==
    IF n < 10 THEN Digits[n + 1]
    ELSE NumberToString(n \div 10) \o Digits[(n % 10) + 1]

\* lines 361-369: the message of the error the years are refused with, ""
\* when they pass
yearsError(from, to) ==
    LET fromYear == ToNumber(from)
        toYear   == ToNumber(to)
        notFour(year) ==
            /\ Greater(year, Num(0))
            /\ Len(NumberToString(year.n)) # 4
    IN  IF Greater(fromYear, toYear)
        THEN "From year must be less than to year"
        ELSE IF notFour(fromYear) \/ notFour(toYear)
        THEN "Custom year range values must be 4 digits"
        ELSE ""

\* lines 671-687: what the checked filter i adds
filterClause(i) ==
    LET fldName == DefaultFilters[i].filterfield
        value   == DefaultFilters[i].filtervalue
    IN  CASE fldName = "year" ->
                 " BETWEEN ("
                     \o NumberToString(CurrentYear - ToNumber(value).n)
                     \o ":3001" \o "[Pub Year])"
          [] fldName = "notempty" -> " NOTEMPTY ([" \o value \o "])"
          [] OTHER -> " CONTAINS (" \o value \o "[" \o fldName \o "])"

\* lines 667-689: the each over .defaultFilter, from the filter i on
RECURSIVE eachDefaultFilter(_, _, _)
eachDefaultFilter(checked, i, defaultFilterCriteria) ==
    IF i > Len(DefaultFilters) THEN defaultFilterCriteria
    ELSE eachDefaultFilter(checked, i + 1,
             IF checked[i] THEN defaultFilterCriteria \o filterClause(i)
             ELSE defaultFilterCriteria)

\* lines 691-703: what the custom range adds
customRangeClause(from, to, enabled) ==
    IF (from # "" \/ to # "") /\ enabled
    THEN LET fromYear == IF from = "" THEN "1001" ELSE from
             toYear   == IF from # "" /\ to = "" THEN "3000" ELSE to
         IN  " BETWEEN (" \o fromYear \o ":" \o toYear \o "[Pub Year])"
    ELSE ""

\* the clauses added onto the criteria composed before
buildDefaultFilterCriteriaOntoOld(checked) ==
    eachDefaultFilter(checked, 1, DefaultFilterCriteria)
        \o customRangeClause(fromPubYear, toPubYear, customRange)

\* lines 662-706: the value #DefaultFilterCriteria is given
buildDefaultFilterCriteria(checked) ==
    eachDefaultFilter(checked, 1, "")
        \o customRangeClause(fromPubYear, toPubYear, customRange)

\* the handler, for a click on the element el: a checkbox has changed its
\* checked property when the handler runs
DefaultFilterClick(el) ==
    /\ location = "Index"
    /\ searchResults # NoResults
    /\ el \in FilterElements
    /\ LET checked  == IF el = FilterButton THEN defaultFilter
                       ELSE [defaultFilter EXCEPT ![el] = ~@]
           message  == yearsError(fromPubYear, toPubYear)
           criteria == buildDefaultFilterCriteria(checked)
       IN  /\ defaultFilter' = checked
           /\ toastrError' = message
           /\ IF message # ""
              THEN UNCHANGED << DefaultFilterCriteria, requests,
                                loadingMessage >>
              ELSE /\ MaySend
                   /\ DefaultFilterCriteria' = criteria
                   /\ requests' = Send(requests,
                          Request("defaultFilter",
                              [createModel(Num(1)) EXCEPT
                                  !.DefaultFilterCriteria = criteria],
                              0, FALSE))
                   /\ loadingMessage' = TRUE
    /\ UNCHANGED << heap, selectedPubIds, selectedLabel, searchResults,
                    selectAll, selectAllLabel, searchSpinner,
                    resetIconHidden, location >>
    /\ answered' = NoRequest
    /\ UNCHANGED << fromPubYear, toPubYear, customRange >>
    /\ UNCHANGED qryVars
    /\ UNCHANGED expVars

\* the user types into #toPubYear and checks or unchecks #customRange
TypeToPubYear(text) ==
    /\ location = "Index"
    /\ searchResults # NoResults
    /\ toPubYear' = text
    /\ UNCHANGED << defaultFilter, fromPubYear, customRange,
                    DefaultFilterCriteria, toastrError >>
    /\ UNCHANGED << qryVars, selVars, expVars >>
CustomRangeChange ==
    /\ location = "Index"
    /\ searchResults # NoResults
    /\ customRange' = ~customRange
    /\ UNCHANGED << defaultFilter, fromPubYear, toPubYear,
                    DefaultFilterCriteria, toastrError >>
    /\ UNCHANGED << qryVars, selVars, expVars >>

\* lines 385-387 and 395-401: success, then complete
DefaultFilterSuccess(r, p) ==
    /\ location = "Index"
    /\ r \in Sent(requests, "defaultFilter")
    /\ p \in ServedPages(r.model)
    /\ requests' = Answered(requests, r)
    /\ loadingMessage' = FALSE
    /\ searchResults' =
           [Fragment(p) EXCEPT !.pubSelected =
               setSelectedPubCheckboxes(@, Selection)]
    /\ UNCHANGED << heap, selectedPubIds, selectedLabel, selectAll,
                    selectAllLabel, searchSpinner, resetIconHidden,
                    location >>
    /\ answered' = [handler |-> r.handler, status |-> "success"]
    /\ UNCHANGED qryVars
    /\ UNCHANGED expVars
    /\ UNCHANGED fltVars

\* lines 388-391 and 395-401: error, then complete
DefaultFilterError(r) ==
    /\ location = "Index"
    /\ r \in Sent(requests, "defaultFilter")
    /\ requests' = Answered(requests, r)
    /\ loadingMessage' = FALSE
    /\ searchResults' =
           [searchResults EXCEPT !.pubSelected =
               setSelectedPubCheckboxes(@, Selection)]
    /\ UNCHANGED << heap, selectedPubIds, selectedLabel, selectAll,
                    selectAllLabel, searchSpinner, resetIconHidden,
                    location >>
    /\ answered' = [handler |-> r.handler, status |-> "error"]
    /\ UNCHANGED qryVars
    /\ UNCHANGED expVars
    /\ UNCHANGED fltVars

(***************************************************************************)
(* #selectAll change, lines 597-640.                                       *)
(***************************************************************************)
SelectAllChange ==
    /\ location = "Index"
    /\ searchResults # NoResults
    /\ MaySend
    /\ selectAll' = ~selectAll
    /\ requests' = Send(requests,
           Request("selectAll", createModel(Num(1)), 0, selectAll'))
    /\ loadingMessage' = TRUE
    /\ selectAllLabel' = IF selectAll' THEN "Deselect all Results"
                         ELSE "Select all Results"
    /\ UNCHANGED << heap, selectedPubIds, selectedLabel, searchResults,
                    searchSpinner, resetIconHidden, location >>
    /\ answered' = NoRequest
    /\ UNCHANGED qryVars
    /\ UNCHANGED expVars
    /\ UNCHANGED fltVars

\* lines 616-619: data.forEach(push) onto arr
RECURSIVE pushEach(_, _)
pushEach(arr, data) ==
    IF data = << >> THEN arr
    ELSE pushEach(Append(arr, Head(data)), Tail(data))

\* a success callback that does not clear the array first
selectAllArrayKeepsOld(all, data) ==
    IF all THEN pushEach(Selection, data) ELSE << >>

\* lines 610-619: the array after success, from the answered list data
selectAllArray(all, data) ==
    IF all THEN pushEach(<< >>, data) ELSE << >>

\* lines 608-624: success with the list data
SelectAllSuccess(r, data) ==
    /\ location = "Index"
    /\ r \in Sent(requests, "selectAll")
    /\ requests' = Answered(requests, r)
    /\ selectedPubIds' = NewArray(requests')
    /\ heap' = Collect([heap EXCEPT ![selectedPubIds'] =
                            selectAllArray(r.selectAll, data)],
                       selectedPubIds', requests')
    /\ searchResults' =
           [searchResults EXCEPT !.pubSelected =
               [id \in DOMAIN @ |-> r.selectAll]]
    /\ selectedLabel' = Len(heap'[selectedPubIds'])
    /\ UNCHANGED << selectAll, selectAllLabel, loadingMessage, searchSpinner,
                    resetIconHidden, location >>
    /\ answered' = [handler |-> r.handler, status |-> "success"]
    /\ UNCHANGED qryVars
    /\ UNCHANGED expVars
    /\ UNCHANGED fltVars

\* lines 625-628: error
SelectAllError(r) ==
    /\ location = "Index"
    /\ r \in Sent(requests, "selectAll")
    /\ requests' = Answered(requests, r)
    /\ loadingMessage' = FALSE
    /\ UNCHANGED << heap, selectedPubIds, selectedLabel, searchResults,
                    selectAll, selectAllLabel, searchSpinner,
                    resetIconHidden, location >>
    /\ answered' = [handler |-> r.handler, status |-> "error"]
    /\ UNCHANGED qryVars
    /\ UNCHANGED expVars
    /\ UNCHANGED fltVars

(***************************************************************************)
(* The export dialogs: #submitEmail click, lines 450-502, #submitSave      *)
(* click, lines 504-580, and createModelForExport, lines 732-788.          *)
(***************************************************************************)
\* the dialogs as the page is loaded: closed, nothing entered, the option
\* "all" selected, no error shown
EmailModalClosed ==
    [shown |-> FALSE, emailTo |-> "", Selection |-> "all",
     toError |-> FALSE, selectError |-> FALSE, maxMsg |-> FALSE,
     icon |-> "fa-envelope"]
SaveModalClosed ==
    [shown |-> FALSE, Selection |-> "all", selectError |-> FALSE,
     maxMsg |-> FALSE, icon |-> "fa-download"]

\* lines 765 and 770: the most results an email and a save may carry
EmailCeiling == 1000
SaveCeiling == 10000

\* the values of the selection options of the dialogs
SelectionOptions == {"all", "allOnPage", "selected"}

\* the parts of text between the occurrences of the character sep
RECURSIVE Split(_, _, _, _)
Split(text, sep, part, parts) ==
    IF text = "" THEN Append(parts, part)
    ELSE LET c    == SubSeq(text, 1, 1)
             rest == SubSeq(text, 2, Len(text))
         IN  IF c = sep THEN Split(rest, sep, "", Append(parts, part))
             ELSE Split(rest, sep, part \o c, parts)

\* a test that asks for no more than one @ with text on both sides
regexForEmailTestAnyDomain(text) ==
    LET halves == Split(text, "@", "", << >>)
    IN  /\ Len(halves) = 2
        /\ halves[1] # ""
        /\ halves[2] # ""

\* line 462, regexForEmail.test(text), for a text without " and [ (the
\* alternatives of a quoted local part and of an address literal need
\* them): atoms joined by dots, @, labels of letters, digits and - joined
\* by dots, the last label of two letters or more
Letters ==
    {"a", "b", "c", "d", "e", "f", "g", "h", "i", "j", "k", "l", "m",
     "n", "o", "p", "q", "r", "s", "t", "u", "v", "w", "x", "y", "z",
     "A", "B", "C", "D", "E", "F", "G", "H", "I", "J", "K", "L", "M",
     "N", "O", "P", "Q", "R", "S", "T", "U", "V", "W", "X", "Y", "Z"}
NotInAtom ==
    {"<", ">", "(", ")", "[", "]", "\\", ".", ",", ";", ":", " ", "@", "\""}
regexForEmailTest(text) ==
    LET halves == Split(text, "@", "", << >>)
    IN  /\ Len(halves) = 2
        /\ LET atoms  == Split(halves[1], ".", "", << >>)
               labels == Split(halves[2], ".", "", << >>)
           IN  /\ \A i \in 1..Len(atoms) :
                      /\ atoms[i] # ""
                      /\ CharsOf(atoms[i]) \cap NotInAtom = {}
               /\ Len(labels) >= 2
               /\ \A i \in 1..(Len(labels) - 1) :
                      /\ labels[i] # ""
                      /\ CharsOf(labels[i]) \subseteq
                             Letters \cup {Digits[j] : j \in 1..10} \cup {"-"}
               /\ Len(labels[Len(labels)]) >= 2
               /\ CharsOf(labels[Len(labels)]) \subseteq Letters

\* lines 748-762: the ids the export carries
exportSelectedIds(selectionOpt) ==
    CASE selectionOpt = "allOnPage" ->
             Ascending(DOMAIN searchResults.pubSelected)
      [] selectionOpt = "selected" -> Selection
      [] OTHER -> << >>

\* the ceilings compared with >=: an export of exactly as many results as
\* the ceiling is refused
exportTooLargeAtCeiling(exportType, selectionOpt) ==
    LET ceiling == IF exportType = "email" THEN EmailCeiling
                   ELSE SaveCeiling
    IN  \/ Len(exportSelectedIds(selectionOpt)) >= ceiling
        \/ /\ selectionOpt = "all"
           /\ Greater(ToNumber(searchResultCount), Num(ceiling - 1))

\* the number of ids left out of the test: only the count of all results
\* is compared with the ceiling
exportTooLargeOnlyAll(exportType, selectionOpt) ==
    LET ceiling == IF exportType = "email" THEN EmailCeiling
                   ELSE SaveCeiling
    IN  /\ selectionOpt = "all"
        /\ Greater(ToNumber(searchResultCount), Num(ceiling))

\* lines 763-774: createModelForExport returns null
exportTooLarge(exportType, selectionOpt) ==
    LET ceiling == IF exportType = "email" THEN EmailCeiling
                   ELSE SaveCeiling
    IN  \/ Len(exportSelectedIds(selectionOpt)) > ceiling
        \/ /\ selectionOpt = "all"
           /\ Greater(ToNumber(searchResultCount), Num(ceiling))

\* $("#SearchCriteria").val(): the criteria the page was rendered for
HiddenSearchCriteria == "x"

\* lines 775-787: the model createModelForExport returns otherwise
createModelForExport(fetchPageNumber, exportType, selectionOpt, email) ==
    LET model == createModel(fetchPageNumber)
    IN  [CurrentPage |-> model.CurrentPage,
         SearchCriteria |-> IF model.SearchCriteria = ""
                            THEN HiddenSearchCriteria
                            ELSE model.SearchCriteria,
         ExportOptions |->
             [Type |-> exportType, Selection |-> selectionOpt,
              SelectedItems |-> exportSelectedIds(selectionOpt),
              EmailAddress |-> email]]

\* the option compared with 'Selected', which is no value of the select
nothingSelectedOtherCase(model) ==
    /\ model.ExportOptions.Selection = "Selected"
    /\ Len(model.ExportOptions.SelectedItems) = 0

\* lines 471 and 513: 'selected' was chosen and nothing is selected
nothingSelected(model) ==
    /\ model.ExportOptions.Selection = "selected"
    /\ Len(model.ExportOptions.SelectedItems) = 0

\* $("#CurrentPage").val(): the page of the result list shown
CurrentPageVal == Num(searchResults.CurrentPage)

\* lines 450-502: click on Send in the email dialog
SubmitEmailClick ==
    /\ location = "Index"
    /\ searchResults # NoResults
    /\ emailModal.shown
    /\ LET cleared == [emailModal EXCEPT !.toError = FALSE,
                                         !.selectError = FALSE,
                                         !.maxMsg = FALSE]
           model   == createModelForExport(CurrentPageVal, "email",
                          emailModal.Selection, emailModal.emailTo)
       IN  IF exportTooLarge("email", emailModal.Selection)
           THEN /\ emailModal' = [cleared EXCEPT !.maxMsg = TRUE]
                /\ UNCHANGED requests
           ELSE IF ~regexForEmailTest(emailModal.emailTo)
           THEN /\ emailModal' = [cleared EXCEPT !.toError = TRUE]
                /\ UNCHANGED requests
           ELSE IF nothingSelected(model)
           THEN /\ emailModal' = [cleared EXCEPT !.selectError = TRUE]
                /\ UNCHANGED requests
           ELSE /\ MaySend
                /\ emailModal' = [cleared EXCEPT
                                     !.shown = FALSE,
                                     !.icon = "spinner"]
                /\ requests' = Send(requests,
                       Request("submitEmail", model, 0, FALSE))
    /\ UNCHANGED << heap, selectedPubIds, selectedLabel, searchResults,
                    selectAll, selectAllLabel, loadingMessage,
                    searchSpinner, resetIconHidden, location >>
    /\ answered' = NoRequest
    /\ UNCHANGED << saveModal, searchResultCount >>
    /\ UNCHANGED qryVars
    /\ UNCHANGED fltVars

\* lines 484-500: success with data (toastr reports "Email was
\* successfully sent" or "Email was not sent": the status of answered),
\* then complete
SubmitEmailSuccess(r, data) ==
    /\ location = "Index"
    /\ r \in Sent(requests, "submitEmail")
    /\ requests' = Answered(requests, r)
    /\ emailModal' = [emailModal EXCEPT !.icon = "fa-envelope"]
    /\ UNCHANGED << heap, selectedPubIds, selectedLabel, searchResults,
                    selectAll, selectAllLabel, loadingMessage,
                    searchSpinner, resetIconHidden, location >>
    /\ answered' = [handler |-> r.handler,
                    status |-> IF data THEN "success" ELSE "not sent"]
    /\ UNCHANGED << saveModal, searchResultCount >>
    /\ UNCHANGED qryVars
    /\ UNCHANGED fltVars

\* lines 490-500: error (toastr reports the response text), then complete
SubmitEmailError(r) ==
    /\ location = "Index"
    /\ r \in Sent(requests, "submitEmail")
    /\ requests' = Answered(requests, r)
    /\ emailModal' = [emailModal EXCEPT !.icon = "fa-envelope"]
    /\ UNCHANGED << heap, selectedPubIds, selectedLabel, searchResults,
                    selectAll, selectAllLabel, loadingMessage,
                    searchSpinner, resetIconHidden, location >>
    /\ answered' = [handler |-> r.handler, status |-> "error"]
    /\ UNCHANGED << saveModal, searchResultCount >>
    /\ UNCHANGED qryVars
    /\ UNCHANGED fltVars

\* lines 504-580: click on Save in the save dialog
SubmitSaveClick ==
    /\ location = "Index"
    /\ searchResults # NoResults
    /\ saveModal.shown
    /\ LET cleared == [saveModal EXCEPT !.maxMsg = FALSE,
                                        !.selectError = FALSE]
           model   == createModelForExport(CurrentPageVal, "save",
                          saveModal.Selection, "")
       IN  IF exportTooLarge("save", saveModal.Selection)
           THEN /\ saveModal' = [cleared EXCEPT !.maxMsg = TRUE]
                /\ UNCHANGED requests
           ELSE IF nothingSelected(model)
           THEN /\ saveModal' = [cleared EXCEPT !.selectError = TRUE]
                /\ UNCHANGED requests
           ELSE /\ MaySend
                /\ saveModal' = [cleared EXCEPT !.shown = FALSE,
                                                !.icon = "spinner"]
                /\ requests' = Send(requests,
                       Request("submitSave", model, 0, FALSE))
    /\ UNCHANGED << heap, selectedPubIds, selectedLabel, searchResults,
                    selectAll, selectAllLabel, loadingMessage,
                    searchSpinner, resetIconHidden, location >>
    /\ answered' = NoRequest
    /\ UNCHANGED << emailModal, searchResultCount >>
    /\ UNCHANGED qryVars
    /\ UNCHANGED fltVars

\* lines 528-578: success (the file is handed to the browser and toastr
\* reports it), then complete
SubmitSaveSuccess(r) ==
    /\ location = "Index"
    /\ r \in Sent(requests, "submitSave")
    /\ requests' = Answered(requests, r)
    /\ saveModal' = [saveModal EXCEPT !.icon = "fa-download"]
    /\ UNCHANGED << heap, selectedPubIds, selectedLabel, searchResults,
                    selectAll, selectAllLabel, loadingMessage,
                    searchSpinner, resetIconHidden, location >>
    /\ answered' = [handler |-> r.handler, status |-> "success"]
    /\ UNCHANGED << emailModal, searchResultCount >>
    /\ UNCHANGED qryVars
    /\ UNCHANGED fltVars

\* lines 568-578: error (toastr reports it), then complete
SubmitSaveError(r) ==
    /\ location = "Index"
    /\ r \in Sent(requests, "submitSave")
    /\ requests' = Answered(requests, r)
    /\ saveModal' = [saveModal EXCEPT !.icon = "fa-download"]
    /\ UNCHANGED << heap, selectedPubIds, selectedLabel, searchResults,
                    selectAll, selectAllLabel, loadingMessage,
                    searchSpinner, resetIconHidden, location >>
    /\ answered' = [handler |-> r.handler, status |-> "error"]
    /\ UNCHANGED << emailModal, searchResultCount >>
    /\ UNCHANGED qryVars
    /\ UNCHANGED fltVars

\* the user opens a dialog, chooses a selection option, types an address
OpenEmailModal ==
    /\ location = "Index"
    /\ searchResults # NoResults
    /\ ~emailModal.shown
    /\ emailModal' = [emailModal EXCEPT !.shown = TRUE]
    /\ answered' = NoRequest
    /\ UNCHANGED << heap, selectedPubIds, selectedLabel, searchResults,
                    selectAll, selectAllLabel, requests, loadingMessage,
                    searchSpinner, resetIconHidden, location >>
    /\ UNCHANGED << saveModal, searchResultCount >>
    /\ UNCHANGED qryVars
    /\ UNCHANGED fltVars

OpenSaveModal ==
    /\ location = "Index"
    /\ searchResults # NoResults
    /\ ~saveModal.shown
    /\ saveModal' = [saveModal EXCEPT !.shown = TRUE]
    /\ answered' = NoRequest
    /\ UNCHANGED << heap, selectedPubIds, selectedLabel, searchResults,
                    selectAll, selectAllLabel, requests, loadingMessage,
                    searchSpinner, resetIconHidden, location >>
    /\ UNCHANGED << emailModal, searchResultCount >>
    /\ UNCHANGED qryVars
    /\ UNCHANGED fltVars

SelectionOptionForEmailChange(opt) ==
    /\ emailModal.shown
    /\ opt # emailModal.Selection
    /\ emailModal' = [emailModal EXCEPT !.Selection = opt]
    /\ answered' = NoRequest
    /\ UNCHANGED << heap, selectedPubIds, selectedLabel, searchResults,
                    selectAll, selectAllLabel, requests, loadingMessage,
                    searchSpinner, resetIconHidden, location >>
    /\ UNCHANGED << saveModal, searchResultCount >>
    /\ UNCHANGED qryVars
    /\ UNCHANGED fltVars

SelectionOptionForSaveChange(opt) ==
    /\ saveModal.shown
    /\ opt # saveModal.Selection
    /\ saveModal' = [saveModal EXCEPT !.Selection = opt]
    /\ answered' = NoRequest
    /\ UNCHANGED << heap, selectedPubIds, selectedLabel, searchResults,
                    selectAll, selectAllLabel, requests, loadingMessage,
                    searchSpinner, resetIconHidden, location >>
    /\ UNCHANGED << emailModal, searchResultCount >>
    /\ UNCHANGED qryVars
    /\ UNCHANGED fltVars

TypeEmailTo(text) ==
    /\ emailModal.shown
    /\ text # emailModal.emailTo
    /\ emailModal' = [emailModal EXCEPT !.emailTo = text]
    /\ answered' = NoRequest
    /\ UNCHANGED << heap, selectedPubIds, selectedLabel, searchResults,
                    selectAll, selectAllLabel, requests, loadingMessage,
                    searchSpinner, resetIconHidden, location >>
    /\ UNCHANGED << saveModal, searchResultCount >>
    /\ UNCHANGED qryVars
    /\ UNCHANGED fltVars

(***************************************************************************)
(* The claims about the selection, checked under Spec.                     *)
(***************************************************************************)
\* the ids in an array, and in the selection
Elements(arr) == {arr[i] : i \in 1..Len(arr)}
SelSet == Elements(Selection)
\* the pubids of the checkboxes shown, and of those that are checked
Shown == DOMAIN searchResults.pubSelected
Checked == {id \in Shown : searchResults.pubSelected[id]}
\* the arrays that only the closure of a search in flight still holds
Detached == {heap[a] : a \in HeldArrs(requests) \ {selectedPubIds}}

\* the steps of the callbacks of each kind of request
BtnSearchAnsweredOk ==
    \E r \in BagToSet(requests), p \in 1..NumPages : BtnSearchSuccess(r, p)
BtnSearchAnsweredError == \E r \in BagToSet(requests) : BtnSearchError(r)
BtnSearchRedirected == \E r \in BagToSet(requests) : BtnSearchRedirect(r)
FetchPageAnsweredOk ==
    \E r \in BagToSet(requests), p \in 1..NumPages : FetchPageSuccess(r, p)
FetchPageAnsweredError == \E r \in BagToSet(requests) : FetchPageError(r)
DefaultFilterAnsweredOk ==
    \E r \in BagToSet(requests), p \in 1..NumPages :
        DefaultFilterSuccess(r, p)
DefaultFilterAnsweredError ==
    \E r \in BagToSet(requests) : DefaultFilterError(r)
ChangeOptionsAnswered ==
    \E r \in BagToSet(requests) :
        \/ ChangeOptionsError(r)
        \/ \E p \in 1..NumPages : ChangeOptionsSuccess(r, p)
SelectAllConfirmed ==
    \E r \in BagToSet(requests), data \in ServerLists :
        SelectAllSuccess(r, data)
Toggled == \E pubid \in Pubs : PubSelectedChange(pubid)

\* C1, as claimed: the callbacks of a page fetch, of a default filter
\* search and of a display option change leave the set of selected ids as
\* it was, and only a checkbox toggle, a confirmed select-all or the answer
\* to a Search button request changes it.
C1_RefreshKeepsSelection ==
    [][ /\ ( \/ FetchPageAnsweredOk \/ FetchPageAnsweredError
             \/ DefaultFilterAnsweredOk \/ DefaultFilterAnsweredError
             \/ ChangeOptionsAnswered ) => SelSet' = SelSet
        /\ SelSet' # SelSet =>
               \/ Toggled \/ SelectAllConfirmed
               \/ BtnSearchAnsweredOk \/ BtnSearchRedirected ]_vars

\* C1, amended: the callbacks of a page fetch and of a default filter
\* search leave the selection array and its contents as they were; the
\* complete callback of a display option change, after success and after
\* error, empties the selection and sets the label to 0; and only a
\* checkbox toggle, a confirmed select-all, the answer to a Search button
\* request or a completed display option change changes the set of
\* selected ids.
C1_FetchAndFilterKeepSelection ==
    [][ /\ ( \/ FetchPageAnsweredOk \/ FetchPageAnsweredError
             \/ DefaultFilterAnsweredOk \/ DefaultFilterAnsweredError ) =>
               /\ selectedPubIds' = selectedPubIds
               /\ Selection' = Selection
        /\ ChangeOptionsAnswered =>
               /\ Selection' = << >>
               /\ selectedLabel' = 0
        /\ SelSet' # SelSet =>
               \/ Toggled \/ SelectAllConfirmed
               \/ BtnSearchAnsweredOk \/ BtnSearchRedirected
               \/ ChangeOptionsAnswered ]_vars

\* C1, witness: page 2 has just been fetched and publication 1, checked on
\* page 1, is still selected.
C1_SelectionSurvivedFetch ==
    /\ answered = [handler |-> "fetchpage", status |-> "success"]
    /\ searchResults.CurrentPage = 2
    /\ Selection = << 1 >>
    /\ selectedLabel = 1

\* C2, as claimed: once a Search button request is answered, with a result
\* fragment or with an error, while no reset of the filters is under way,
\* the selection is empty and the label reads 0.
C2_SearchAnsweredResets ==
    [][ ( /\ ~resetIconHidden
          /\ BtnSearchAnsweredOk \/ BtnSearchAnsweredError ) =>
            /\ Selection' = << >>
            /\ selectedLabel' = 0 ]_vars

\* C2, amended: once a Search button request is answered with a result
\* fragment while .reset-icon is shown, the selection is empty and the
\* label reads 0; when it is answered with an error the selection and the
\* label stay as they were.
C2_SearchSuccessResets ==
    [][ /\ ( ~resetIconHidden /\ BtnSearchAnsweredOk ) =>
               /\ Selection' = << >>
               /\ selectedLabel' = 0
        /\ BtnSearchAnsweredError =>
               /\ Selection' = Selection
               /\ selectedLabel' = selectedLabel ]_vars

\* C2, witness: a search has just been answered with results and the
\* selection is a new empty array, while the array of the old selection,
\* which holds publication 1, is still held by another search in flight.
C2_SearchHasReset ==
    /\ answered = [handler |-> "btnSearch", status |-> "success"]
    /\ Selection = << >>
    /\ selectedLabel = 0
    /\ << 1 >> \in Detached

\* C3, as claimed: from every reachable state, toggling the checkbox of a
\* publication twice in a row leaves the set of selected ids as it was.
C3_ToggleTwiceIsIdentity ==
    \A pubid \in Shown :
        LET checked == searchResults.pubSelected[pubid]
            once    == pubSelectedChange(Selection, pubid, ~checked)
            twice   == pubSelectedChange(once, pubid, checked)
        IN  Elements(twice) = SelSet

\* C4: when SelectAllCheckedAjax succeeds, the selection is exactly the
\* answered list after a select, and empty after a deselect.
C4_SelectAllReplaces ==
    [][ \A r \in BagToSet(requests), data \in ServerLists :
            SelectAllSuccess(r, data) =>
                Selection' = IF r.selectAll THEN data ELSE << >> ]_vars

\* C4, witness: a select-all has just been confirmed with the list <<2>>;
\* the selection is <<2>>, and the array of the old selection, which held
\* publication 1, is only held by a search in flight.
C4_SelectAllHasReplaced ==
    /\ answered = [handler |-> "selectAll", status |-> "success"]
    /\ Selection = << 2 >>
    /\ << 1 >> \in Detached

\* C5: setSelectedPubCheckboxes checks the shown checkboxes whose id is in
\* the selection and no other: over a new fragment the checked boxes are
\* exactly the shown ids that are selected, over the old fragment (after an
\* error) the boxes checked in addition are shown ids that are selected;
\* the boxes are those of the page shown, and the selection is not changed.
C5_ReapplyChecksSelectedShown ==
    [][ /\ (FetchPageAnsweredOk \/ DefaultFilterAnsweredOk) =>
               /\ Checked' = Shown' \cap SelSet
               /\ Shown' = PageIds(searchResults'.CurrentPage)
               /\ Selection' = Selection
        /\ (FetchPageAnsweredError \/ DefaultFilterAnsweredError) =>
               /\ Checked' = Checked \cup (Shown \cap SelSet)
               /\ Shown' = Shown
               /\ Selection' = Selection
        /\ (restorePath /\ BtnSearchAnsweredOk) =>
               /\ Checked' = Shown' \cap SelSet'
               /\ Shown' = PageIds(searchResults'.CurrentPage) ]_vars

\* C5, witness: page 1 has just been fetched while publications 1 and 2
\* are selected: the box of 1 is checked, and 2 is not among the boxes.
C5_ReappliedAfterFetch ==
    /\ answered = [handler |-> "fetchpage", status |-> "success"]
    /\ SelSet = {1, 2}
    /\ Shown = {1}
    /\ Checked = {1}

\* C6, as claimed: in every reachable state the label shows the number of
\* ids in the selection.
C6_LabelIsSelectionCount ==
    location = "Index" => selectedLabel = Len(Selection)

(***************************************************************************)
(* The claims about the query builder, checked under SpecQuery.            *)
(***************************************************************************)
\* the number of occurrences of the character c in the text s
RECURSIVE CountChar(_, _)
CountChar(s, c) ==
    IF s = "" THEN 0
    ELSE (IF SubSeq(s, 1, 1) = c THEN 1 ELSE 0)
         + CountChar(SubSeq(s, 2, Len(s)), c)

\* reading s from the left with depth parentheses open, no parenthesis
\* closes one that was not opened and none is left open at the end
RECURSIVE ClosesAll(_, _)
ClosesAll(s, depth) ==
    IF s = "" THEN depth = 0
    ELSE LET c == SubSeq(s, 1, 1)
             rest == SubSeq(s, 2, Len(s))
         IN  IF c = "(" THEN ClosesAll(rest, depth + 1)
             ELSE IF c = ")" THEN depth > 0 /\ ClosesAll(rest, depth - 1)
             ELSE ClosesAll(rest, depth)
Balanced(s) == ClosesAll(s, 0)

\* the occurrences of c in the clauses entered since the box was empty
RECURSIVE CountInClauses(_, _)
CountInClauses(cs, c) ==
    IF cs = << >> THEN 0
    ELSE CountChar(Head(cs).term, c) + CountInClauses(Tail(cs), c)

\* the query box holds what addToQueryBox built, not text typed by hand
BuiltByAppends ==
    /\ clauses # << >>
    /\ clauses[1].term # "?"

\* a click on the button btn that appends a clause
Appends(btn) ==
    /\ BtnAddClick(btn)
    /\ ~NothingEntered(searchValue, searchFromValue, searchToValue)

\* C7: an append onto a query box that is not empty gives
\* "(" + current + ") " + operator + " (" + clause + ")", with the operator
\* of the button used and the whole former content of the box as current.
C7_AppendOntoContentWraps ==
    [][ \A btn \in AddButtons :
            (Appends(btn) /\ queryBox # "") =>
                queryBox' = "(" \o queryBox \o ") " \o DataOperator(btn)
                            \o " (" \o CurrentTerm \o ")" ]_vars

\* C7, witness: a clause on year was appended with OR to "x[fieldA]".
C7_OrAppended ==
    /\ queryBox = "(x[fieldA]) OR (1990:3000[year])"
    /\ Len(clauses) = 2
    /\ clauses[2] = [operator |-> "OR", term |-> "1990:3000[year]"]

\* C8: an append onto an empty query box gives the text of the clause
\* alone, whatever the operator of the button used.
C8_AppendOntoEmptyIsClause ==
    [][ \A btn \in AddButtons :
            (Appends(btn) /\ queryBox = "") => queryBox' = CurrentTerm ]_vars

\* C8, witness: the OR button appended the clause of x to an empty box.
C8_OrAppendedOntoEmpty ==
    /\ queryBox = "x[fieldA]"
    /\ clauses = << [operator |-> "OR", term |-> "x[fieldA]"] >>

\* C9, as claimed: whatever was entered, the query built by appends has
\* balanced parentheses, and after the first append it is the clause alone.
C9_QueryIsBalanced ==
    BuiltByAppends =>
        /\ Balanced(queryBox)
        /\ Len(clauses) = 1 => queryBox = clauses[1].term

\* C10, as claimed: after n appends of clauses without parentheses, with
\* n > 1, the query holds one fewer parenthesized group than the number of
\* appends beyond the first, that is n - 2.
C10_GroupsOneFewer ==
    ( /\ BuiltByAppends
      /\ Len(clauses) > 1
      /\ CountInClauses(clauses, "(") = 0
      /\ CountInClauses(clauses, ")") = 0 ) =>
        CountChar(queryBox, "(") = Len(clauses) - 2

\* C10, amended: after n appends the query holds two pairs of parentheses
\* for each append beyond the first, beside the parentheses of the clauses
\* entered: 2 * (n - 1) opening and 2 * (n - 1) closing ones.
C10_TwoGroupsPerAppend ==
    BuiltByAppends =>
        /\ CountChar(queryBox, "(") =
               2 * (Len(clauses) - 1) + CountInClauses(clauses, "(")
        /\ CountChar(queryBox, ")") =
               2 * (Len(clauses) - 1) + CountInClauses(clauses, ")")

\* C10, witness: three clauses were appended, and the query holds four
\* parenthesized groups.
C10_ThreeAppends ==
    /\ Len(clauses) = 3
    /\ queryBox = "((x[fieldA]) AND (x[fieldA])) OR (0:1990[year])"
    /\ CountChar(queryBox, "(") = 4

\* the append of a click on btn went through with the clause term
AppendedAs(btn, term) ==
    /\ queryBox' = IF queryBox = "" THEN term
                   ELSE "(" \o queryBox \o ") " \o DataOperator(btn)
                        \o " (" \o term \o ")"
    /\ searchCriteria' = queryBox'

\* from:to[field] of the inputs as they stand, 0 for a from that is not
\* set and 3000 for a to that is not set
RangeClause ==
    (IF searchFromValue = "" THEN "0" ELSE searchFromValue) \o ":"
    \o (IF searchToValue = "" THEN "3000" ELSE searchToValue)
    \o "[" \o SelectedOption.text \o "]"

\* the click found nothing to append: the message is shown and the query
\* is as it was
Refused ==
    /\ emptySearchTerm' =
           [html |-> "Please enter a value before adding to query.",
            hidden |-> FALSE]
    /\ UNCHANGED << queryBox, searchCriteria >>

\* C11, as claimed: every click on an add button with a range (int) field
\* selected appends from:to[field], with 0 for an unset from and 3000 for
\* an unset to, also when both bounds are omitted.
C11_RangeAppendAlwaysRenders ==
    [][ \A btn \in AddButtons :
            (BtnAddClick(btn) /\ SelectedOption.columntype = "int") =>
                AppendedAs(btn, RangeClause) ]_vars

\* C11, amended: a click with a range field selected appends
\* from:to[field], with 0 for an unset from and 3000 for an unset to,
\* when a bound is given or #searchValue holds text; with both bounds
\* omitted and #searchValue empty nothing is appended and the message is
\* shown; with both bounds omitted and text left in #searchValue the
\* clause is 0:3000[field].
C11_RangeAppendRenders ==
    [][ \A btn \in AddButtons :
            (BtnAddClick(btn) /\ SelectedOption.columntype = "int") =>
                /\ ( searchFromValue # "" \/ searchToValue # ""
                     \/ searchValue # "" ) => AppendedAs(btn, RangeClause)
                /\ ( searchFromValue = "" /\ searchToValue = ""
                     /\ searchValue = "" ) => Refused
                /\ ( searchFromValue = "" /\ searchToValue = ""
                     /\ searchValue # "" ) =>
                       AppendedAs(btn, "0:3000[" \o SelectedOption.text
                                       \o "]") ]_vars

\* C11, witness: the clause 1990:3000[year] was appended with the to
\* bound not set, and a later click with neither bound set was refused.
C11_RangeAppendedThenRefused ==
    /\ queryBox = "1990:3000[year]"
    /\ SelectedOption.columntype = "int"
    /\ searchFromValue = "" /\ searchToValue = "" /\ searchValue = ""
    /\ ~emptySearchTerm.hidden

\* C12: a click on an add button with a string field selected, an empty
\* value and no range bound shows the message and leaves the query box,
\* the simple search box, the text of the ADD button and the visibility
\* of the OR and AND NOT buttons as they were.
C12_EmptyAppendChangesNothing ==
    [][ \A btn \in AddButtons :
            ( /\ BtnAddClick(btn)
              /\ SelectedOption.columntype = "string"
              /\ searchValue = ""
              /\ searchFromValue = "" /\ searchToValue = "" ) =>
                /\ emptySearchTerm' =
                       [html |-> "Please enter a value before adding to query.",
                        hidden |-> FALSE]
                /\ UNCHANGED << queryBox, searchCriteria, btnAddText,
                                btnNotHidden, btnOrHidden >> ]_vars

\* C12, witness: after the append of x[fieldA] a click with nothing
\* entered was refused: the message is shown and the query is x[fieldA].
C12_EmptyAppendRefused ==
    /\ SelectedOption.columntype = "string"
    /\ searchValue = "" /\ searchFromValue = "" /\ searchToValue = ""
    /\ ~emptySearchTerm.hidden
    /\ emptySearchTerm.html = "Please enter a value before adding to query."
    /\ queryBox = "x[fieldA]"
    /\ searchCriteria = "x[fieldA]"
    /\ btnAddText = "AND"

\* the OR and AND NOT buttons are shown and the ADD button reads AND
OperatorsShown ==
    btnOrHidden = FALSE /\ btnNotHidden = FALSE /\ btnAddText = "AND"
\* the OR and AND NOT buttons are hidden and the ADD button reads ADD
OperatorsHidden ==
    btnOrHidden = TRUE /\ btnNotHidden = TRUE /\ btnAddText = "ADD"

C29_StringClauseHasValue ==
    [][ \A btn \in AddButtons :
            ( /\ BtnAddClick(btn)
              /\ SelectedOption.columntype = "string"
              /\ queryBox' # queryBox ) => searchValue # "" ]_vars

(***************************************************************************)
(* The claims about the exports, checked under SpecExport.                 *)
(***************************************************************************)
\* the export requests in flight
Exports == Sent(requests, "submitEmail") \cup Sent(requests, "submitSave")

\* C14: no EmailSearchResults or DownloadSearchResults request is sent
\* with Selection = selected and an empty list of SelectedItems.
C14_NoExportOfEmptySelection ==
    \A r \in Exports :
        r.model.ExportOptions.Selection = "selected" =>
            r.model.ExportOptions.SelectedItems # << >>

\* C14, witness: a save of the selected publication 1 is in flight, and
\* an email of the selected results was refused after the box of 1 was
\* unchecked: its error is shown and the dialog is open.
C14_EmptySelectionRefused ==
    /\ \E r \in Sent(requests, "submitSave") :
           /\ r.model.ExportOptions.Selection = "selected"
           /\ r.model.ExportOptions.SelectedItems = << 1 >>
    /\ Selection = << >>
    /\ emailModal.Selection = "selected"
    /\ emailModal.selectError
    /\ emailModal.shown
    /\ Sent(requests, "submitEmail") = {}

\* the number #searchResultCount shows
ReportedTotal == DecimalValue(searchResultCount, 0)

\* an export of all results left for the server with this step
EmailDispatched ==
    \E r \in Sent(requests', "submitEmail") :
        /\ requests' = Send(requests, r)
        /\ r.model.ExportOptions.Selection = "all"
SaveDispatched ==
    \E r \in Sent(requests', "submitSave") :
        /\ requests' = Send(requests, r)
        /\ r.model.ExportOptions.Selection = "all"

HasDottedDomain(text) ==
    LET halves == Split(text, "@", "", << >>)
    IN  /\ Len(halves) = 2
        /\ Len(Split(halves[2], ".", "", << >>)) >= 2

\* C16 as stated: a click on #submitEmail with a malformed address shows
\* #emailToError, sends nothing and leaves the dialog open.
C16_MalformedShowsEmailError ==
    [][ (SubmitEmailClick /\ ~HasDottedDomain(emailModal.emailTo)) =>
            /\ emailModal'.toError
            /\ requests' = requests
            /\ emailModal'.shown ]_vars

\* C16, amended: every EmailSearchResults request in flight carries an
\* address with a dotted domain, and a click on #submitEmail with a
\* malformed address sends nothing and leaves the dialog open; it shows
\* #emailToError unless the export is refused for its size first, and
\* then the maximum is highlighted and #emailToError stays hidden.
C16_MalformedNeverSent ==
    /\ \A r \in Sent(requests, "submitEmail") :
           HasDottedDomain(r.model.ExportOptions.EmailAddress)
    /\ [][ (SubmitEmailClick /\ ~HasDottedDomain(emailModal.emailTo)) =>
               /\ requests' = requests
               /\ emailModal'.shown
               /\ IF \/ /\ emailModal.Selection = "all"
                         /\ ReportedTotal > 1000
                     \/ Len(exportSelectedIds(emailModal.Selection)) > 1000
                  THEN emailModal'.maxMsg /\ ~emailModal'.toError
                  ELSE emailModal'.toError /\ ~emailModal'.maxMsg ]_vars

\* C16, witness: the address a@b was refused with 900 results: its error
\* is shown, the dialog is open and no email is in flight.
C16_MalformedRefused ==
    /\ searchResultCount = "900"
    /\ emailModal.emailTo = "a@b"
    /\ emailModal.Selection = "all"
    /\ emailModal.toError
    /\ ~emailModal.maxMsg
    /\ emailModal.shown
    /\ Sent(requests, "submitEmail") = {}

(***************************************************************************)
(* The claim about requests in flight, checked under Spec.                 *)
(***************************************************************************)
\* C20: no two requests sent by the same handler are in flight at the same
\* time.
C20_OneRequestPerAction ==
    \A r1, r2 \in BagToSet(requests) :
        r1.handler = r2.handler =>
            /\ r1 = r2
            /\ CopiesIn(r1, requests) = 1

(***************************************************************************)
(* The claims about failures, checked under Spec.                          *)
(***************************************************************************)
\* a request of the result list is answered with an error
AnsweredError ==
    \E r \in BagToSet(requests) :
        \/ BtnSearchError(r)
        \/ FetchPageError(r)
        \/ ChangeOptionsError(r)
        \/ DefaultFilterError(r)
        \/ SelectAllError(r)

\* C21: once the callbacks of a request answered with an error have run,
\* #loadingMessage is hidden, after a search the spinner of the Search
\* button is hidden and .reset-icon is shown, and, when no request is left
\* in flight, no pager link and no page number field is hidden behind its
\* spinner.
C21_ErrorRestoresControls ==
    [][ AnsweredError =>
            /\ loadingMessage' = FALSE
            /\ BtnSearchAnsweredError =>
                   (searchSpinner' = FALSE /\ resetIconHidden' = FALSE)
            /\ requests' = EmptyBag => searchResults'.hidden = {} ]_vars

\* C22: no SearchAjax request sent by the .btnSearch handler carries empty
\* SearchCriteria.
C22_NoSearchOfEmptyQuery ==
    \A r \in Sent(requests, "btnSearch") : r.model.SearchCriteria # ""

\* C24: when the answer to a .btnSearch request takes the restore path, the
\* selection after the success callback is the selection before it.
C24_RestoreKeepsSelection ==
    [][ (restorePath /\ BtnSearchAnsweredOk) =>
            heap'[selectedPubIds'] = heap[selectedPubIds] ]_vars

\* C25: whenever no request is in flight, the checkboxes that are checked
\* are those of the shown publications whose id is in the selection.
C25_BoxesAgreeWithSelection ==
    requests = EmptyBag => Checked = SelSet \cap Shown

\* C26: in every reachable state the selection holds no id twice (the
\* lists SelectAllCheckedAjax answers hold no id twice).
C26_NoIdTwice ==
    \A i, j \in 1..Len(Selection) :
        Selection[i] = Selection[j] => i = j

\* C26, witness: publication 2 was checked on its page and publication 1,
\* after a page fetch that was answered, on its own: the selection holds
\* both, once each, and the box of 1 is checked.
C26_TwoPagesSelected ==
    /\ Selection = << 2, 1 >>
    /\ Checked = {1}
    /\ requests = EmptyBag

(***************************************************************************)
(* The claim about the advanced search, checked under SpecAdvance.         *)
(***************************************************************************)
\* C23: no AdvancedSearchAjax request is sent while one is in flight or
\* once the fragment was loaded, so no two are ever in flight.
C23_FragmentFetchedOnce ==
    [][ (\E r \in Sent(requests', "searchAdvance") :
            requests' = Send(requests, r)) =>
           /\ Sent(requests, "searchAdvance") = {}
           /\ advancedLoaded = FALSE ]_vars

(***************************************************************************)
(* The claims about the default filters, checked under SpecFilter.         *)
(***************************************************************************)
\* a bound that is supplied and is not a text of four digits
NotFourDigits(text) ==
    /\ text # ""
    /\ ~ (Len(text) = 4 /\ CharsOf(text) \subseteq {Digits[i] : i \in 1..10})
\* both bounds are supplied as numbers and from is the greater
FromAfterTo ==
    /\ fromPubYear # ""
    /\ toPubYear # ""
    /\ DecimalValue(fromPubYear, 0) > DecimalValue(toPubYear, 0)
\* the click composed nothing and sent nothing, and reported an error
FilterRefused ==
    /\ toastrError' # ""
    /\ DefaultFilterCriteria' = DefaultFilterCriteria
    /\ requests' = requests
\* the click sent a search that carries the criteria it composed
FilterSent ==
    \E r \in Sent(requests', "defaultFilter") :
        /\ requests' = Send(requests, r)
        /\ r.model.DefaultFilterCriteria = DefaultFilterCriteria'
EndsWith(text, suffix) ==
    /\ Len(text) >= Len(suffix)
    /\ SubSeq(text, Len(text) - Len(suffix) + 1, Len(text)) = suffix
\* BETWEEN of the custom range, 1001 for a missing from and 3000 for a
\* missing to
CustomClause ==
    " BETWEEN (" \o (IF fromPubYear = "" THEN "1001" ELSE fromPubYear)
        \o ":" \o (IF toPubYear = "" THEN "3000" ELSE toPubYear)
        \o "[Pub Year])"
\* one clause for each checked filter of the page, in document order
CheckedClauses(checked) ==
    (IF checked[1] THEN " BETWEEN (2021:3001[Pub Year])" ELSE "")
        \o (IF checked[2] THEN " NOTEMPTY ([Abstract])" ELSE "")
        \o (IF checked[3] THEN " CONTAINS (x[Author])" ELSE "")

\* C17: with the custom range enabled, a click on a default filter is
\* refused with an error, composes nothing (#DefaultFilterCriteria keeps
\* its value) and sends nothing when from is greater than to or when a
\* supplied bound is not of four digits.
C17_BadYearsRefused ==
    [][ \A el \in FilterElements :
            ( /\ DefaultFilterClick(el)
              /\ customRange = TRUE
              /\ \/ FromAfterTo
                 \/ NotFourDigits(fromPubYear)
                 \/ NotFourDigits(toPubYear) ) => FilterRefused ]_vars

\* C18: with the custom range enabled and exactly one bound supplied, of
\* four digits, a click on a default filter composes criteria that end
\* with BETWEEN (from:to[Pub Year]), 1001 for the missing from or 3000 for
\* the missing to, and sends a search that carries them.
C18_OneBoundIsCompleted ==
    [][ \A el \in FilterElements :
            ( /\ DefaultFilterClick(el)
              /\ customRange = TRUE
              /\ (fromPubYear = "") # (toPubYear = "")
              /\ ~NotFourDigits(fromPubYear)
              /\ ~NotFourDigits(toPubYear) ) =>
                /\ EndsWith(DefaultFilterCriteria', CustomClause)
                /\ FilterSent ]_vars

\* C19 as stated: the criteria a click on a default filter composes are
\* the clauses of the checked filters in document order and nothing else.
C19_OnlyCheckedFilters ==
    [][ \A el \in FilterElements :
            (DefaultFilterClick(el) /\ toastrError' = "") =>
                DefaultFilterCriteria' = CheckedClauses(defaultFilter') ]_vars

\* C19, amended: the criteria a click on a default filter composes are the
\* clauses of the checked filters in document order, followed by the
\* clause of the custom range when it is enabled with a bound supplied,
\* and nothing else: no clause of an unchecked filter and nothing of the
\* criteria composed before.
C19_ComposedFromScratch ==
    [][ \A el \in FilterElements :
            (DefaultFilterClick(el) /\ toastrError' = "") =>
                DefaultFilterCriteria' =
                    CheckedClauses(defaultFilter')
                        \o (IF /\ customRange = TRUE
                               /\ (fromPubYear # "" \/ toPubYear # "")
                            THEN CustomClause ELSE "") ]_vars

\* C19, witness: the search sent with the first two filters checked is in
\* flight; since then the first was unchecked and the custom range enabled
\* up to 1998, and the criteria and the search sent last hold the second
\* filter and the range only.
C19_RecomposedAfterUncheck ==
    /\ defaultFilter = << FALSE, TRUE, FALSE >>
    /\ DefaultFilterCriteria =
           " NOTEMPTY ([Abstract]) BETWEEN (1001:1998[Pub Year])"
    /\ \E r \in Sent(requests, "defaultFilter") :
           r.model.DefaultFilterCriteria =
               " BETWEEN (2021:3001[Pub Year]) NOTEMPTY ([Abstract])"
    /\ \E r \in Sent(requests, "defaultFilter") :
           r.model.DefaultFilterCriteria = DefaultFilterCriteria

\* the default filters as the page is loaded: nothing checked, no years
\* typed, no criteria composed
FiltersUntouched ==
    /\ defaultFilter = NoFilterChecked
    /\ fromPubYear = ""
    /\ toPubYear = ""
    /\ customRange = FALSE
    /\ DefaultFilterCriteria = ""
    /\ toastrError = ""

(***************************************************************************)
(* The claim about the page number field, checked under SpecPaging.        *)
(***************************************************************************)
\* C28: Enter in .pageNumber sends FetchPageAjax only with a page number in
\* 1..NumPages: for a text that is a number below 1 or above NumPages, or
\* no number, nothing is sent and the field shows the current page again.
C28_EnterSendsValidPage ==
    [][ \A text \in TypedPages :
            PageNumberEnter(text) =>
                LET page == parseInt(text)
                IN  IF ~page.nan /\ page.n \in 1..NumPages
                    THEN \E r \in Sent(requests', "fetchpage") :
                             /\ requests' = Send(requests, r)
                             /\ r.model.CurrentPage = page
                    ELSE /\ requests' = requests
                         /\ searchResults'.pageNumber =
                                PageTexts[searchResults.CurrentPage + 1]
      ]_vars

Init ==
    /\ queryBox = ""
    /\ searchCriteria = ""
    /\ searchValue = ""
    /\ searchFromValue = ""
    /\ searchToValue = ""
    /\ searchOptions = 1
    /\ fromToHidden = TRUE
    /\ searchValueHidden = FALSE
    /\ btnAddText = "ADD"
    /\ btnNotHidden = TRUE
    /\ btnOrHidden = TRUE
    /\ emptySearchTerm = [html |-> "", hidden |-> TRUE]
    /\ btnSearchDisabled = TRUE
    /\ advancedLoaded = FALSE
    /\ advancedVisible = FALSE
    /\ errorMessages = FALSE
    /\ clauses = << >>
    /\ heap = [a \in ArrIds |-> << >>]
    /\ selectedPubIds = 1
    /\ selectedLabel = 0
    /\ searchResults = NoResults
    /\ selectAll = FALSE
    /\ selectAllLabel = "Select all Results"
    /\ requests = EmptyBag
    /\ loadingMessage = FALSE
    /\ searchSpinner = FALSE
    /\ resetIconHidden = FALSE
    /\ location = "Index"
    /\ answered = NoRequest
    /\ emailModal = EmailModalClosed
    /\ saveModal = SaveModalClosed
    /\ searchResultCount = ""
    /\ FiltersUntouched

\* what the user types into the simple search box
TypedCriteria == {"x"}

\* searching, paging and selecting on the main search page
Next ==
    \/ \E text \in TypedCriteria : SearchCriteriaKeyup(text)
    \/ BtnSearchClick
    \/ ResetFiltersClick
    \/ \E r \in BagToSet(requests), p \in 1..NumPages : BtnSearchSuccess(r, p)
    \/ \E r \in BagToSet(requests) : BtnSearchRedirect(r)
    \/ \E r \in BagToSet(requests) : BtnSearchError(r)
    \/ \E val \in 1..NumPages, href \in {"#", "/"} : FetchPageClick(href, val)
    \/ \E r \in BagToSet(requests), p \in 1..NumPages : FetchPageSuccess(r, p)
    \/ \E r \in BagToSet(requests) : FetchPageError(r)
    \/ ChangeOptionsClick
    \/ \E r \in BagToSet(requests), p \in 1..NumPages :
           ChangeOptionsSuccess(r, p)
    \/ \E r \in BagToSet(requests) : ChangeOptionsError(r)
    \/ DefaultFilterClick(FilterButton)
    \/ \E r \in BagToSet(requests), p \in 1..NumPages :
           DefaultFilterSuccess(r, p)
    \/ \E r \in BagToSet(requests) : DefaultFilterError(r)
    \/ \E pubid \in Pubs : PubSelectedChange(pubid)
    \/ SelectAllChange
    \/ \E r \in BagToSet(requests), data \in ServerLists :
           SelectAllSuccess(r, data)
    \/ \E r \in BagToSet(requests) : SelectAllError(r)

Spec == Init /\ [][Next]_vars

\* the advanced search loaded and shown, its query box empty
InitQuery ==
    /\ queryBox = ""
    /\ searchCriteria = ""
    /\ searchValue = ""
    /\ searchFromValue = ""
    /\ searchToValue = ""
    /\ searchOptions = 1
    /\ fromToHidden = TRUE
    /\ searchValueHidden = FALSE
    /\ btnAddText = "ADD"
    /\ btnNotHidden = TRUE
    /\ btnOrHidden = TRUE
    /\ emptySearchTerm = [html |-> "", hidden |-> TRUE]
    /\ btnSearchDisabled = TRUE
    /\ advancedLoaded = TRUE
    /\ advancedVisible = TRUE
    /\ errorMessages = FALSE
    /\ clauses = << >>
    /\ heap = [a \in ArrIds |-> << >>]
    /\ selectedPubIds = 1
    /\ selectedLabel = 0
    /\ searchResults = NoResults
    /\ selectAll = FALSE
    /\ selectAllLabel = "Select all Results"
    /\ requests = EmptyBag
    /\ loadingMessage = FALSE
    /\ searchSpinner = FALSE
    /\ resetIconHidden = FALSE
    /\ location = "Index"
    /\ answered = NoRequest
    /\ emailModal = EmailModalClosed
    /\ saveModal = SaveModalClosed
    /\ searchResultCount = ""
    /\ FiltersUntouched

\* the addresses the user types and the result counts the server reports
TypedEmails == {"a@b.co", "a@b"}
ResultCounts == {"900", "1000", "1001", "10000", "10001"}

\* the main search page with the first page of the results of a search
\* for x shown, nothing selected, no request in flight
InitExport ==
    /\ queryBox = ""
    /\ searchCriteria = "x"
    /\ searchValue = ""
    /\ searchFromValue = ""
    /\ searchToValue = ""
    /\ searchOptions = 1
    /\ fromToHidden = TRUE
    /\ searchValueHidden = FALSE
    /\ btnAddText = "ADD"
    /\ btnNotHidden = TRUE
    /\ btnOrHidden = TRUE
    /\ emptySearchTerm = [html |-> "", hidden |-> TRUE]
    /\ btnSearchDisabled = FALSE
    /\ advancedLoaded = FALSE
    /\ advancedVisible = FALSE
    /\ errorMessages = FALSE
    /\ clauses = << >>
    /\ heap = [a \in ArrIds |-> << >>]
    /\ selectedPubIds = 1
    /\ selectedLabel = 0
    /\ searchResults = Fragment(1)
    /\ selectAll = FALSE
    /\ selectAllLabel = "Select all Results"
    /\ requests = EmptyBag
    /\ loadingMessage = FALSE
    /\ searchSpinner = FALSE
    /\ resetIconHidden = FALSE
    /\ location = "Index"
    /\ answered = NoRequest
    /\ emailModal = EmailModalClosed
    /\ saveModal = SaveModalClosed
    /\ searchResultCount \in ResultCounts
    /\ FiltersUntouched

\* selecting results and exporting them by email or to a file
NextExport ==
    \/ \E pubid \in Pubs : PubSelectedChange(pubid)
    \/ OpenEmailModal
    \/ OpenSaveModal
    \/ \E opt \in SelectionOptions : SelectionOptionForEmailChange(opt)
    \/ \E opt \in SelectionOptions : SelectionOptionForSaveChange(opt)
    \/ \E text \in TypedEmails : TypeEmailTo(text)
    \/ SubmitEmailClick
    \/ \E r \in BagToSet(requests), data \in BOOLEAN :
           SubmitEmailSuccess(r, data)
    \/ \E r \in BagToSet(requests) : SubmitEmailError(r)
    \/ SubmitSaveClick
    \/ \E r \in BagToSet(requests) : SubmitSaveSuccess(r)
    \/ \E r \in BagToSet(requests) : SubmitSaveError(r)

SpecExport == InitExport /\ [][NextExport]_vars

\* building a query in the advanced search
NextQuery ==
    \/ \E btn \in AddButtons : BtnAddClick(btn)
    \/ SearchValueEnter
    \/ \E v \in TypedValues : TypeSearchValue(v)
    \/ \E from \in TypedYears, to \in TypedYears : TypeFromTo(from, to)
    \/ \E i \in 1..Len(FieldOptions) : SearchOptionsChange(i)
    \/ BtnClearClick
    \/ QueryBoxKeyup("")

SpecQuery == InitQuery /\ [][NextQuery]_vars

\* the years #fromPubYear holds and the years the user types into
\* #toPubYear
TypedFromYears == {"", "0", "1999"}
TypedToYears == {"", "999", "1998"}

\* the main search page with the first page of the results of a search
\* for x shown, a from year typed or not, and no default filter applied
InitFilter ==
    /\ queryBox = ""
    /\ searchCriteria = "x"
    /\ searchValue = ""
    /\ searchFromValue = ""
    /\ searchToValue = ""
    /\ searchOptions = 1
    /\ fromToHidden = TRUE
    /\ searchValueHidden = FALSE
    /\ btnAddText = "ADD"
    /\ btnNotHidden = TRUE
    /\ btnOrHidden = TRUE
    /\ emptySearchTerm = [html |-> "", hidden |-> TRUE]
    /\ btnSearchDisabled = FALSE
    /\ advancedLoaded = FALSE
    /\ advancedVisible = FALSE
    /\ errorMessages = FALSE
    /\ clauses = << >>
    /\ heap = [a \in ArrIds |-> << >>]
    /\ selectedPubIds = 1
    /\ selectedLabel = 0
    /\ searchResults = Fragment(1)
    /\ selectAll = FALSE
    /\ selectAllLabel = "Select all Results"
    /\ requests = EmptyBag
    /\ loadingMessage = FALSE
    /\ searchSpinner = FALSE
    /\ resetIconHidden = FALSE
    /\ location = "Index"
    /\ answered = NoRequest
    /\ emailModal = EmailModalClosed
    /\ saveModal = SaveModalClosed
    /\ searchResultCount = "900"
    /\ defaultFilter = NoFilterChecked
    /\ fromPubYear \in TypedFromYears
    /\ toPubYear = ""
    /\ customRange = FALSE
    /\ DefaultFilterCriteria = ""
    /\ toastrError = ""

\* applying the default filters and the custom range of years
NextFilter ==
    \/ \E el \in FilterElements : DefaultFilterClick(el)
    \/ \E r \in BagToSet(requests), p \in 1..NumPages :
           DefaultFilterSuccess(r, p)
    \/ \E r \in BagToSet(requests) : DefaultFilterError(r)
    \/ \E text \in TypedToYears : TypeToPubYear(text)
    \/ CustomRangeChange

SpecFilter == InitFilter /\ [][NextFilter]_vars

\* switching between the simple and the advanced search, typing into the
\* box of the mode shown, and searching
NextAdvance ==
    \/ SearchAdvanceClick
    \/ \E r \in BagToSet(requests) : SearchAdvanceSuccess(r)
    \/ \E r \in BagToSet(requests) : SearchAdvanceError(r)
    \/ \E text \in TypedCriteria \cup {""} : SearchCriteriaKeyup(text)
    \/ \E text \in TypedCriteria \cup {""} :
           advancedLoaded /\ advancedVisible /\ QueryBoxKeyup(text)
    \/ BtnSearchClick
    \/ \E r \in BagToSet(requests), p \in 1..NumPages : BtnSearchSuccess(r, p)
    \/ \E r \in BagToSet(requests) : BtnSearchError(r)

SpecAdvance == Init /\ [][NextAdvance]_vars

\* the numbers of results a confirmed select-all has selected
SelectedCounts == {1000, 1001, 10000, 10001}

\* the main search page after a select-all of all results was confirmed
\* with the list of their ids: the first page is shown with its boxes
\* checked
InitLargeExport ==
    /\ queryBox = ""
    /\ searchCriteria = "x"
    /\ searchValue = ""
    /\ searchFromValue = ""
    /\ searchToValue = ""
    /\ searchOptions = 1
    /\ fromToHidden = TRUE
    /\ searchValueHidden = FALSE
    /\ btnAddText = "ADD"
    /\ btnNotHidden = TRUE
    /\ btnOrHidden = TRUE
    /\ emptySearchTerm = [html |-> "", hidden |-> TRUE]
    /\ btnSearchDisabled = FALSE
    /\ advancedLoaded = FALSE
    /\ advancedVisible = FALSE
    /\ errorMessages = FALSE
    /\ clauses = << >>
    /\ \E n \in SelectedCounts :
           /\ heap = [a \in ArrIds |->
                         IF a = 1 THEN [i \in 1..n |-> i] ELSE << >>]
           /\ searchResultCount = NumberToString(n)
    /\ selectedPubIds = 1
    /\ selectedLabel = Len(heap[1])
    /\ searchResults =
           [Fragment(1) EXCEPT !.pubSelected =
               [id \in PageIds(1) |-> TRUE]]
    /\ selectAll = TRUE
    /\ selectAllLabel = "Deselect all Results"
    /\ requests = EmptyBag
    /\ loadingMessage = FALSE
    /\ searchSpinner = FALSE
    /\ resetIconHidden = FALSE
    /\ location = "Index"
    /\ answered = NoRequest
    /\ emailModal = EmailModalClosed
    /\ saveModal = SaveModalClosed
    /\ FiltersUntouched

\* exporting the selection by email or to a file
NextLargeExport ==
    \/ OpenEmailModal
    \/ OpenSaveModal
    \/ \E opt \in SelectionOptions : SelectionOptionForEmailChange(opt)
    \/ \E opt \in SelectionOptions : SelectionOptionForSaveChange(opt)
    \/ TypeEmailTo("a@b.co")
    \/ SubmitEmailClick
    \/ \E r \in BagToSet(requests), data \in BOOLEAN :
           SubmitEmailSuccess(r, data)
    \/ \E r \in BagToSet(requests) : SubmitEmailError(r)
    \/ SubmitSaveClick
    \/ \E r \in BagToSet(requests) : SubmitSaveSuccess(r)
    \/ \E r \in BagToSet(requests) : SubmitSaveError(r)

SpecLargeExport == InitLargeExport /\ [][NextLargeExport]_vars

\* the main search page with the first page of the results of a search
\* for x shown, nothing selected, no request in flight
InitPaging ==
    /\ queryBox = ""
    /\ searchCriteria = "x"
    /\ searchValue = ""
    /\ searchFromValue = ""
    /\ searchToValue = ""
    /\ searchOptions = 1
    /\ fromToHidden = TRUE
    /\ searchValueHidden = FALSE
    /\ btnAddText = "ADD"
    /\ btnNotHidden = TRUE
    /\ btnOrHidden = TRUE
    /\ emptySearchTerm = [html |-> "", hidden |-> TRUE]
    /\ btnSearchDisabled = FALSE
    /\ advancedLoaded = FALSE
    /\ advancedVisible = FALSE
    /\ errorMessages = FALSE
    /\ clauses = << >>
    /\ heap = [a \in ArrIds |-> << >>]
    /\ selectedPubIds = 1
    /\ selectedLabel = 0
    /\ searchResults = Fragment(1)
    /\ selectAll = FALSE
    /\ selectAllLabel = "Select all Results"
    /\ requests = EmptyBag
    /\ loadingMessage = FALSE
    /\ searchSpinner = FALSE
    /\ resetIconHidden = FALSE
    /\ location = "Index"
    /\ answered = NoRequest
    /\ emailModal = EmailModalClosed
    /\ saveModal = SaveModalClosed
    /\ searchResultCount = "900"
    /\ FiltersUntouched

\* paging through the results by the pager links and by the page number
\* field
NextPaging ==
    \/ \E text \in TypedPages : PageNumberEnter(text)
    \/ \E val \in 1..NumPages, href \in {"#", "/"} : FetchPageClick(href, val)
    \/ \E r \in BagToSet(requests), p \in 1..NumPages : FetchPageSuccess(r, p)
    \/ \E r \in BagToSet(requests) : FetchPageError(r)
    \/ \E pubid \in Pubs : PubSelectedChange(pubid)

SpecPaging == InitPaging /\ [][NextPaging]_vars

====
